---- MODULE Spec2Model ----
(***************************************************************************)
(* VidTrainPrep: the range store of VideoCropper (scripts/video_cropper.py),*)
(* the playback controller of VideoEditor (scripts/video_editor.py) and the *)
(* export batch of VideoExporter (scripts/video_exporter.py), driven by the *)
(* UI events the widgets are connected to.                                  *)
(*                                                                         *)
(* Every handler of the editor is an operator from application state to    *)
(* application state (a record `s` holding the fields of VideoCropper,     *)
(* VideoEditor, the decoder and the widgets the handlers read); a handler  *)
(* that calls another handler, or sets a widget whose signal is connected  *)
(* to one, is the composition of the operators.  An action of Next is one  *)
(* UI event: it applies the event's handler to the current state.          *)
(*                                                                         *)
(* export_videos runs through its sources and ranges with the UI blocked;  *)
(* it is a process whose position is part of the state, one action per     *)
(* step of its loop body, the outcome of each call of the decoder, the     *)
(* transcoder and the captioning service being chosen by the environment.  *)
(*                                                                         *)
(* The two captioning calls of the exporter are processes of the same      *)
(* kind: upload, poll, generate and retry are actions, the service's       *)
(* answers are the environment's.  The session file (scripts/              *)
(* video_loader.py) is a value on disk that load_session reads at start    *)
(* and save_session writes.  The crop scene (scripts/                      *)
(* custom_graphics_scene.py) holds the rectangle being drawn and the ratio *)
(* that constrains it.  The mappings between scene coordinates and source  *)
(* pixels are operators applied to rectangles drawn from small sets.       *)
(*                                                                         *)
(* The names of the exported files and the filter chains handed to the     *)
(* transcoder are computed by operators over small sets of file names,     *)
(* sizes and frame rates.  convert_folder_fps is a process over the        *)
(* listing of the folder, one action per file, the transcoder's outcomes   *)
(* being the environment's.  The video list holds a.mp4, b.mp4 and a file  *)
(* the decoder reports no frames for.                                      *)
(***************************************************************************)
EXTENDS Integers, Sequences, FiniteSets, TLC

\* ------------------------------------------------------------------ bounds
MaxFrames == 2      \* frame count of the video the ranges are cut from
MaxIds == 2         \* ranges created in one run of the range store
MaxPlayIds == 2     \* ranges created in one run of the playback controller
MaxListIds == 3     \* ranges created in one run of the range list
MaxDecodeIds == 1   \* ranges created in one run on the video cut short
MaxPolls == 1       \* times an uploaded video is seen PROCESSING
MaxSessionIds == 1  \* ids in use in a session kept over restarts
MaxDrawIds == 1     \* ranges created while crops are drawn
MaxLoadIds == 3        \* range ids handed out while videos are switched
MaxFolderEntries == 3  \* entries of the folder convert_folder_fps lists
MaxRunIds == 2      \* ranges created between runs of the playback timer
MaxNamedRanges == 2 \* ranges of one video entry in a batch that is named

\* ------------------------------------------------------- program constants
DefaultDuration == 60        \* fallback duration of a new range
MinCropSide == 20            \* smallest side of a rectangle the scene finalizes
max_retries == 3             \* attempts of one captioning call

\* ------------------------------------------------------------ environment
\* The folder: two videos.  Sizes are source pixels; fps10 is the frame rate
\* in tenths of a frame per second (cv2.CAP_PROP_FPS is a float); pix_w x pix_h
\* is the pixmap display_frame makes of a frame of the video.  frame_count is
\* what the container reports (cv2.CAP_PROP_FRAME_COUNT); the last `lost`
\* frames of it cannot be decoded: a.mp4 is whole, b.mp4 is cut short.
Videos == {"a.mp4", "b.mp4"}
NoVideo == "none"
VideoProps(v) ==
    IF v = "a.mp4"
    THEN [frame_count |-> MaxFrames, lost |-> 0, width |-> 4, height |-> 3,
          fps10 |-> 20, pix_w |-> 128, pix_h |-> 96]
    ELSE IF v = "b.mp4"
    THEN [frame_count |-> 3, lost |-> 1, width |-> 4, height |-> 3,
          fps10 |-> 4, pix_w |-> 128, pix_h |-> 96]
    ELSE [frame_count |-> 0, lost |-> 0, width |-> 0, height |-> 0,
          fps10 |-> 0, pix_w |-> 0, pix_h |-> 0]

\* A row of video_list whose file the decoder reports no frames for; it never
\* gets an entry of video_data.
Unreadable == "c.mp4"

\* ---------------------------------------------------------------- helpers
Max(a, b) == IF a >= b THEN a ELSE b
Min(a, b) == IF a <= b THEN a ELSE b

\* Python int(): truncation toward zero of the rational num/den (den > 0).
IntTrunc(num, den) == IF num >= 0 THEN num \div den ELSE -((-num) \div den)

\* Python round() of the rational n10/10: nearest integer, ties to even.
Round10(n10) ==
    LET q == n10 \div 10
        r == n10 % 10
    IN  IF r < 5 THEN q
        ELSE IF r > 5 THEN q + 1
        ELSE IF q % 2 = 0 THEN q ELSE q + 1

\* A QLineEdit's text: str(n) is <<n>>, any non-numeric text ("-", "") is <<>>.
Str(n) == <<n>>
NonNumeric == <<>>
IsInt(text) == Len(text) = 1
Int_(text) == text[1]

\* A range's crop: None is <<>>, a crop is the tuple <<x, y, w, h>>.
None == <<>>
NoId == 0

\* ------------------------------------------------------------------ state
VARIABLES
    video_data,        \* VideoCropper.video_data: path -> list of ranges
    cur,               \* VideoCropper.current_video_original_path
    sel,               \* VideoCropper.current_selected_range_id (NoId: None)
    next_id,           \* the next fresh uuid4 value
    cap,               \* VideoCropper.cap is an opened capture
    frame_count,       \* VideoCropper.frame_count
    fps10,             \* VideoEditor.current_fps, in tenths
    pos,               \* the capture's CAP_PROP_POS_FRAMES (index of the next frame)
    shown,             \* index of the frame last decoded and put on the pixmap (-1: none)
    slider,            \* slider.value()
    slider_max,        \* slider.maximum()
    slider_enabled,    \* slider.isEnabled()
    label,             \* frame number shown by current_frame_label (-1: "- / -")
    start_text,        \* start_frame_input.text()
    dur_text,          \* duration_input.text()
    is_playing,        \* VideoCropper.is_playing
    loop_playback,     \* VideoCropper.loop_playback
    is_playing_range,  \* VideoEditor.is_playing_range
    timer,             \* VideoEditor.playback_timer.isActive()
    pb_start,          \* VideoEditor.current_playback_start_frame
    pb_end,            \* VideoEditor.current_playback_end_frame
    range_end,         \* VideoEditor.current_range_end_frame
    has_pixmap,        \* pixmap_item holds a pixmap of non-zero width
    options,           \* the export widgets: checkboxes, trigger word, checked videos
    batch,             \* VideoExporter.export_videos: its position and its locals
    gemini,            \* VideoExporter.gemini_model and the captioning call in progress
    session,           \* folder_path, video_files, folder_sessions, longest_edge, video_list
    disk,              \* the session file session_data.json
    scene,             \* CustomGraphicsScene, and the ratio widgets of VideoCropper
    mapping,           \* a crop carried between source and scene coordinates
    naming,            \* the output names of one export batch
    filters,           \* the filter steps handed to the transcoder for one range
    fps_run            \* VideoLoader.convert_folder_fps: its position and its locals

vars == <<video_data, cur, sel, next_id, cap, frame_count, fps10, pos, shown,
          slider, slider_max, slider_enabled, label, start_text, dur_text,
          is_playing, loop_playback, is_playing_range, timer, pb_start, pb_end,
          range_end, has_pixmap, options, batch, gemini, session, disk,
          scene, mapping, naming, filters, fps_run>>

\* The application state as one record, the argument of every handler.  Two
\* fields are not program state but a log of the handler that runs on it:
\* seeks counts its calls of update_frame_display, overlap records that
\* _start_playback was entered while the timer or another mode was still on.
State ==
    [video_data |-> video_data, cur |-> cur, sel |-> sel, next_id |-> next_id,
     cap |-> cap, frame_count |-> frame_count, fps10 |-> fps10, pos |-> pos,
     shown |-> shown, slider |-> slider, slider_max |-> slider_max,
     slider_enabled |-> slider_enabled, label |-> label,
     start_text |-> start_text, dur_text |-> dur_text,
     is_playing |-> is_playing, loop_playback |-> loop_playback,
     is_playing_range |-> is_playing_range, timer |-> timer,
     pb_start |-> pb_start, pb_end |-> pb_end, range_end |-> range_end,
     has_pixmap |-> has_pixmap, seeks |-> 0, overlap |-> FALSE]

\* The fields of the state record become the next values of the variables.
Assign(s) ==
    /\ video_data' = s.video_data
    /\ cur' = s.cur
    /\ sel' = s.sel
    /\ next_id' = s.next_id
    /\ cap' = s.cap
    /\ frame_count' = s.frame_count
    /\ fps10' = s.fps10
    /\ pos' = s.pos
    /\ shown' = s.shown
    /\ slider' = s.slider
    /\ slider_max' = s.slider_max
    /\ slider_enabled' = s.slider_enabled
    /\ label' = s.label
    /\ start_text' = s.start_text
    /\ dur_text' = s.dur_text
    /\ is_playing' = s.is_playing
    /\ loop_playback' = s.loop_playback
    /\ is_playing_range' = s.is_playing_range
    /\ timer' = s.timer
    /\ pb_start' = s.pb_start
    /\ pb_end' = s.pb_end
    /\ range_end' = s.range_end
    /\ has_pixmap' = s.has_pixmap

\* The state a handler returns becomes the next state.
Commit(s) ==
    /\ Assign(s)
    /\ UNCHANGED <<options, batch, gemini, session, disk, scene, mapping, naming, filters, fps_run>>

\* The export widgets as initUI leaves them; no video of the list is checked.
NoOptions ==
    [export_cropped_flag |-> TRUE, export_uncropped_flag |-> FALSE,
     export_image_flag |-> FALSE, generate_gemini_flag |-> FALSE,
     trigger_word |-> <<>>, checked |-> {}]

\* export_videos is not running: no position, no locals, no message box.
NoBatch ==
    [pc |-> "idle", items |-> <<>>, item |-> 0, idx |-> 0, out |-> {},
     txt |-> {}, image_paths_for_gemini |-> <<>>,
     video_path_for_gemini |-> "none", handed |-> {}, uploads |-> 0,
     deletes |-> 0, attempted |-> {}, failed |-> {}, any_failed |-> FALSE,
     message |-> "none"]

\* No captioning call was made: gemini_model is None, the key field is empty.
NoGemini ==
    [gemini_model |-> FALSE, api_key |-> FALSE, pc |-> "idle", fn |-> "none",
     video_file |-> FALSE, server |-> "none", state |-> "none", polls |-> 0,
     attempt |-> 0, calls |-> 0, slept |-> <<>>, ret |-> <<>>, deletes |-> 0]

\* ------------------------------------------------- VideoLoader: the session
\* The in-memory session is the record session together with video_data; the
\* session file is the record disk.  An optional value is None or <<value>>:
\* an attribute that was never assigned, a key the file does not hold.
Folder == "dir"                        \* the folder QFileDialog returns
folder_files == <<"a.mp4", "b.mp4">>   \* os.listdir of it, videos only
NoRanges == [v \in Videos |-> <<>>]    \* video_data = {}

\* VideoCropper.__init__ before load_session: longest_edge is not assigned.
NoSession ==
    [running |-> TRUE, folder_path |-> "", video_files |-> <<>>,
     folder_sessions |-> None, longest_edge |-> None, video_list |-> <<>>]

\* A session file is absent, cannot be opened ("unreadable"), does not decode
\* ("corrupt": data is what a reader that went on would find in it), decodes
\* to something that is not an object ("not_object"), or decodes to an object
\* holding some of the five keys.
NoData ==
    [folder_path |-> None, video_files |-> None, folder_sessions |-> None,
     video_data |-> None, longest_edge |-> None]
NoFile == [kind |-> "absent", data |-> NoData]

\* dict.get(key, default)
get(value, default) == IF value = None THEN default ELSE value[1]

\* json.dump of session_data: every key is written.  The ranges hold
\* integers, strings and None, which json.load gives back; a crop tuple is
\* written as a list, which the model does not tell from a tuple.
session_data(m, vd) ==
    [folder_path |-> <<m.folder_path>>, video_files |-> <<m.video_files>>,
     folder_sessions |-> <<m.folder_sessions>>, video_data |-> <<vd>>,
     longest_edge |-> m.longest_edge]

\* A loader that keeps what it finds in a file that does not decode.
load_session_partial(c, file) ==
    IF file.kind = "absent" THEN c
    ELSE [session |-> [c.session EXCEPT
                 !.folder_path = get(file.data.folder_path, ""),
                 !.video_files = get(file.data.video_files, <<>>),
                 !.folder_sessions = get(file.data.folder_sessions, None),
                 !.longest_edge = <<get(file.data.longest_edge, 1024)>>],
          video_data |-> get(file.data.video_data, NoRanges)]

\* load_session on the in-memory session c = [session, video_data].
load_session(c, file) ==
    IF file.kind = "absent" THEN c
    ELSE IF file.kind = "object"
    THEN [session |-> [c.session EXCEPT
                 !.folder_path = get(file.data.folder_path, ""),
                 !.video_files = get(file.data.video_files, <<>>),
                 !.folder_sessions = get(file.data.folder_sessions, None),
                 !.longest_edge = <<get(file.data.longest_edge, 1024)>>],
          video_data |-> get(file.data.video_data, NoRanges)]
    ELSE \* open, json.load or the first session_data.get raised
         [session |-> [c.session EXCEPT !.folder_path = "",
                                        !.video_files = <<>>,
                                        !.folder_sessions = None],
          video_data |-> NoRanges]

\* save_session: the session, the file and whether it raised.  Reading
\* longest_edge raises AttributeError when load_session did not assign it;
\* open (write = "denied") and json.dump (write = "partial") raise inside the
\* try block.
save_session(c, file, write) ==
    LET m == IF c.session.folder_path # ""
             THEN [c.session EXCEPT !.folder_sessions = <<c.session.video_files>>]
             ELSE c.session
    IN  IF m.longest_edge = None
        THEN [session |-> m, disk |-> file, raised |-> TRUE]
        ELSE [session |-> m, raised |-> FALSE,
              disk |-> IF write = "ok"
                       THEN [kind |-> "object", data |-> session_data(m, c.video_data)]
                       ELSE IF write = "partial"
                       THEN [kind |-> "corrupt", data |-> session_data(m, c.video_data)]
                       ELSE file]

\* The loop over video_files calling add_video_item: update_list_item_color
\* saves the session before the item is added to video_list, so the first
\* item is not added when save_session raises.
add_video_items(c, file, write) ==
    LET cleared == [c EXCEPT !.session.video_list = <<>>]
        saved == save_session(cleared, file, write)
    IN  IF c.session.video_files = <<>>
        THEN [session |-> cleared.session, disk |-> file, raised |-> FALSE]
        ELSE IF saved.raised THEN saved
        ELSE [saved EXCEPT !.session.video_list = saved.session.video_files]

\* load_folder_contents: the folder was not loaded before.
load_folder_contents(c, file, write) ==
    LET c1 == [c EXCEPT !.session.video_files = folder_files,
                        !.session.folder_sessions = <<folder_files>>]
        added == add_video_items(c1, file, write)
    IN  IF added.raised THEN added
        ELSE save_session([c1 EXCEPT !.session = added.session], added.disk, write)

\* load_folder with the folder chosen in the dialog.
load_folder(c, file, write) ==
    LET c1 == [c EXCEPT !.session.folder_path = Folder]
    IN  IF c1.session.folder_sessions # None
        THEN add_video_items(
                 [c1 EXCEPT !.session.video_files = c1.session.folder_sessions[1]],
                 file, write)
        ELSE load_folder_contents(c1, file, write)

\* The session after load_folder listed the videos of the folder, and the
\* session file it wrote.
ListedSession ==
    [running |-> TRUE, folder_path |-> Folder, video_files |-> folder_files,
     folder_sessions |-> <<folder_files>>, longest_edge |-> <<1024>>,
     video_list |-> folder_files]
session_file(vd) == [kind |-> "object", data |-> session_data(ListedSession, vd)]

\* The scene and the ratio widgets after initUI: no constraint, nothing
\* drawn, fixed resolution off, the selector enabled on its first entry;
\* status is the text of fixed_res_status_label after "Fixed resolution: "
\* ("Active" for "WxH (Active)").
NoScene ==
    [aspect_ratio |-> None, start_point |-> None, temp_rect |-> None,
     crop_item |-> None, fixed_export_width |-> None,
     fixed_export_height |-> None, combo_enabled |-> TRUE,
     combo_text |-> "Free-form", status |-> "Deactivated"]

\* No crop is carried between the coordinate systems.
NoMapping ==
    [source |-> <<0, 0>>, display |-> <<0, 0>>, drawn |-> None, crop |-> None,
     shown |-> None, back |-> None]

\* convert_folder_fps does not run.
NoFpsRun ==
    [pc |-> "idle", listing |-> <<>>, present |-> {}, at |-> 0, visited |-> <<>>,
     success_count |-> 0, fail_count |-> 0, runs |-> <<>>, ret |-> FALSE]

\* No video was handed to the transcoder.
NoFilters ==
    [fixed |-> None, ratio_text |-> "Free-form", source |-> <<0, 0>>,
     crop |-> None, cropped |-> None, uncropped |-> None]

\* VideoExporter.__init__: file_counter = 0; no batch was named.
NoNaming ==
    [pc |-> "idle", prefix |-> "", image |-> FALSE, cropped |-> FALSE,
     uncropped |-> FALSE, items |-> <<>>, item |-> 0, idx |-> 0,
     file_counter |-> 0, named |-> {}, written |-> {}]

\* State after VideoCropper.__init__, but for video_data, which load_session
\* fills from the session file.
Constructed ==
    /\ cur = NoVideo
    /\ sel = NoId
    /\ next_id = 1
    /\ cap = FALSE
    /\ frame_count = 0
    /\ fps10 = 0
    /\ pos = 0
    /\ shown = -1
    /\ slider = 0
    /\ slider_max = 99          \* a new QSlider ranges over 0..99
    /\ slider_enabled = FALSE
    /\ label = -1
    /\ start_text = Str(0)
    /\ dur_text = Str(DefaultDuration)
    /\ is_playing = FALSE
    /\ loop_playback = FALSE
    /\ is_playing_range = FALSE
    /\ timer = FALSE
    /\ pb_start = -1
    /\ pb_end = -1
    /\ range_end = -1
    /\ has_pixmap = FALSE
    /\ options = NoOptions
    /\ batch = NoBatch
    /\ gemini = NoGemini
    /\ scene = NoScene
    /\ mapping = NoMapping
    /\ naming = NoNaming
    /\ filters = NoFilters
    /\ fps_run = NoFpsRun

\* State after VideoCropper.__init__ and load_folder, on a session without
\* ranges: the videos are listed, none is loaded.
Init ==
    /\ video_data = NoRanges
    /\ session = ListedSession
    /\ disk = session_file(NoRanges)
    /\ Constructed

\* ------------------------------------------------- VideoCropper: range data
\* find_range_by_id: the range of the current video with that id, or None.
ranges_of(s) == IF s.cur \in Videos THEN s.video_data[s.cur] ELSE <<>>

range_row(s, range_id) ==
    LET rs == ranges_of(s)
        hits == {i \in 1..Len(rs) : rs[i].id = range_id}
    IN  IF hits = {} THEN 0 ELSE CHOOSE i \in hits : \A j \in hits : i <= j

found(s, range_id) == range_row(s, range_id) # 0

find_range_by_id(s, range_id) == ranges_of(s)[range_row(s, range_id)]

\* Assignment to a field of the dict find_range_by_id returned.
set_range(s, range_id, field, value) ==
    [s EXCEPT !.video_data[s.cur][range_row(s, range_id)][field] = value]

\* ----------------------------------------------------- VideoEditor: decoder
\* QSlider.setValue keeps the value inside minimum()..maximum().
slider_bound(s, v) == Max(0, Min(v, s.slider_max))

\* A stop that resets the flags and leaves the timer as it is.
stop_playback_flags(s) ==
    [s EXCEPT !.is_playing = FALSE, !.loop_playback = FALSE,
              !.is_playing_range = FALSE, !.range_end = -1]

stop_playback(s) ==
    [s EXCEPT !.timer = FALSE, !.is_playing = FALSE, !.loop_playback = FALSE,
              !.is_playing_range = FALSE, !.range_end = -1]

clamp_frame(s, frame_number) == Max(0, Min(frame_number, s.frame_count - 1))

\* The position update_frame_display reads at: it seeks only when the capture
\* is neither at the wanted frame nor just past it.
read_pos(s, frame_number) ==
    LET n == clamp_frame(s, frame_number)
    IN  IF s.pos = n + 1 \/ s.pos = n THEN s.pos ELSE n

\* cap.read() returns a frame exactly when the position is inside the part of
\* the stream that can be decoded.
read_ok(s, p) == 0 <= p /\ p < s.frame_count - VideoProps(s.cur).lost

\* The value update_frame_display returns.
update_frame_display_ret(s, frame_number) ==
    s.cap /\ read_ok(s, read_pos(s, frame_number))

update_frame_display(s, frame_number) ==
    IF ~s.cap THEN s
    ELSE LET n == clamp_frame(s, frame_number)
             p == read_pos(s, frame_number)
         IN  IF read_ok(s, p)
             THEN [s EXCEPT !.pos = p + 1, !.shown = p, !.has_pixmap = TRUE,
                            !.slider = slider_bound(s, n), !.label = n,
                            !.seeks = @ + 1]
             ELSE [s EXCEPT !.pos = p, !.seeks = @ + 1]

\* scrub_video that leaves the playback running.
scrub_video_while_playing(s, position) ==
    IF s.cap THEN update_frame_display(s, position) ELSE s

scrub_video(s, position) ==
    IF s.cap
    THEN update_frame_display(IF s.timer THEN stop_playback(s) ELSE s, position)
    ELSE s

\* slider.setValue(v) with signals on: valueChanged is connected to scrub_video
\* and is emitted when the value changes.
slider_setValue(s, v) ==
    LET b == slider_bound(s, v)
    IN  IF b = s.slider THEN s ELSE scrub_video([s EXCEPT !.slider = b], b)

\* slider.setMaximum(m): the value is bounded again, valueChanged as above.
slider_setMaximum(s, m) ==
    LET s1 == [s EXCEPT !.slider_max = m]
    IN  slider_setValue(s1, s1.slider)

\* ---------------------------------------------------- VideoEditor: playback
\* _start_playback.  start_frame/end_frame are read only for range playback.
start_prepare(s, loop, range_playback, start_frame, end_frame) ==
    LET others == IF loop THEN s.is_playing \/ s.is_playing_range
                  ELSE IF range_playback THEN s.is_playing \/ s.loop_playback
                  ELSE s.loop_playback \/ s.is_playing_range
        s0 == [s EXCEPT !.overlap = @ \/ s.timer \/ others,
                        !.is_playing = ~loop /\ ~range_playback,
                        !.loop_playback = loop,
                        !.is_playing_range = range_playback,
                        !.pb_start = 0,
                        !.pb_end = s.frame_count]
    IN  IF loop
        THEN IF found(s0, s0.sel)
             THEN LET r == find_range_by_id(s0, s0.sel)
                      s1 == [s0 EXCEPT !.pb_start = r.start, !.pb_end = r.end]
                  IN  [go |-> TRUE,
                       s |-> IF ~(r.start <= s1.pos /\ s1.pos < r.end)
                             THEN slider_setValue([s1 EXCEPT !.pos = r.start], r.start)
                             ELSE s1]
             ELSE [go |-> FALSE, s |-> stop_playback(s0)]
        ELSE IF range_playback
        THEN IF start_frame < end_frame
             THEN [go |-> TRUE,
                   s |-> slider_setValue(
                            [s0 EXCEPT !.pb_start = start_frame,
                                       !.pb_end = end_frame,
                                       !.range_end = end_frame,
                                       !.pos = start_frame], start_frame)]
             ELSE [go |-> FALSE, s |-> stop_playback(s0)]
        ELSE [go |-> TRUE, s |-> [s0 EXCEPT !.pb_start = s0.slider]]

start_playback(s, loop, range_playback, start_frame, end_frame) ==
    IF ~s.cap
    THEN [s EXCEPT !.is_playing = FALSE, !.loop_playback = FALSE,
                   !.is_playing_range = FALSE]
    ELSE LET prep == start_prepare(s, loop, range_playback, start_frame, end_frame)
             shown_s == update_frame_display(prep.s, prep.s.pb_start)
         IN  IF ~prep.go THEN prep.s
             ELSE IF update_frame_display_ret(prep.s, prep.s.pb_start)
             THEN [shown_s EXCEPT !.timer = TRUE]
             ELSE stop_playback(shown_s)

\* toggle_loop_playback that does not stop the other modes first.
toggle_loop_playback_over(s) ==
    LET s2 == [s EXCEPT !.loop_playback = ~s.loop_playback]
    IN  IF s2.loop_playback
        THEN start_playback(s2, TRUE, FALSE, 0, 0)
        ELSE stop_playback(s2)

toggle_loop_playback(s) ==
    LET s1 == IF s.is_playing \/ s.is_playing_range THEN stop_playback(s) ELSE s
        s2 == [s1 EXCEPT !.loop_playback = ~s1.loop_playback]
    IN  IF s2.loop_playback
        THEN start_playback(s2, TRUE, FALSE, 0, 0)
        ELSE stop_playback(s2)

toggle_play_forward(s) ==
    LET s1 == IF s.loop_playback \/ s.is_playing_range THEN stop_playback(s) ELSE s
        s2 == [s1 EXCEPT !.is_playing = ~s1.is_playing]
    IN  IF s2.is_playing
        THEN start_playback(s2, FALSE, FALSE, 0, 0)
        ELSE stop_playback(s2)

toggle_range_playback(s, start_frame, end_frame) ==
    IF s.is_playing_range THEN stop_playback(s)
    ELSE IF s.is_playing \/ s.loop_playback
    THEN start_playback(stop_playback(s), FALSE, TRUE, start_frame, end_frame)
    ELSE start_playback(s, FALSE, TRUE, start_frame, end_frame)

\* _playback_step reaches its cap.read(): a mode is on and no end condition
\* returned before it.
step_reads(s) ==
    /\ s.cap
    /\ s.is_playing \/ s.loop_playback \/ s.is_playing_range
    /\ ~(s.is_playing_range /\ s.pos >= s.range_end)
    /\ ~(~s.loop_playback /\ s.is_playing /\ s.pos >= s.pb_end)

\* current_frame_pos at that read: a loop at its end has seeked to its start.
step_read_pos(s) ==
    IF s.loop_playback /\ s.pos >= s.pb_end THEN s.pb_start ELSE s.pos

\* A tick that reports the decoder position after the read.
playback_step_after_read(s) ==
    LET is_active == s.is_playing \/ s.loop_playback \/ s.is_playing_range
    IN  IF ~s.cap \/ ~is_active THEN stop_playback(s)
        ELSE IF s.is_playing_range /\ s.pos >= s.range_end
        THEN update_frame_display(stop_playback(s), s.pb_start)
        ELSE IF ~step_reads(s)
        THEN stop_playback(s)
        ELSE LET p == step_read_pos(s)
             IN  IF read_ok(s, p)
                 THEN LET actual_read_frame ==
                              IF p + 1 >= s.frame_count THEN s.frame_count - 1
                              ELSE p + 1
                      IN  [s EXCEPT !.pos = p + 1, !.shown = p,
                                    !.has_pixmap = TRUE,
                                    !.slider = slider_bound(s, actual_read_frame),
                                    !.label = actual_read_frame]
                 ELSE LET last_known_frame == IF p > 0 THEN p - 1 ELSE 0
                      IN  [stop_playback(s) EXCEPT
                              !.pos = p,
                              !.label = clamp_frame(s, last_known_frame)]

\* _playback_step: one timeout of playback_timer.
playback_step(s) ==
    LET is_active == s.is_playing \/ s.loop_playback \/ s.is_playing_range
    IN  IF ~s.cap \/ ~is_active THEN stop_playback(s)
        ELSE IF s.is_playing_range /\ s.pos >= s.range_end
        THEN update_frame_display(stop_playback(s), s.pb_start)
        ELSE IF ~step_reads(s)
        THEN stop_playback(s)
        ELSE LET p == step_read_pos(s)
             IN  IF read_ok(s, p)
                 THEN LET actual_read_frame ==
                              IF p >= s.frame_count THEN s.frame_count - 1 ELSE p
                      IN  [s EXCEPT !.pos = p + 1, !.shown = p,
                                    !.has_pixmap = TRUE,
                                    !.slider = slider_bound(s, actual_read_frame),
                                    !.label = actual_read_frame]
                 ELSE LET last_known_frame == IF p > 0 THEN p - 1 ELSE 0
                      IN  [stop_playback(s) EXCEPT
                              !.pos = p,
                              !.label = clamp_frame(s, last_known_frame)]

\* ------------------------------------------- VideoEditor: frame navigation
step_frame(s, delta) ==
    IF ~s.cap \/ ~s.slider_enabled THEN s
    ELSE LET s1 == IF s.timer THEN stop_playback(s) ELSE s
         IN  update_frame_display(s1, s1.slider + delta)

jump_frames(s, delta_seconds) ==
    IF ~s.cap \/ ~s.slider_enabled \/ s.fps10 <= 0 THEN s
    ELSE LET s1 == IF s.timer THEN stop_playback(s) ELSE s
             rounded == Round10(delta_seconds * s.fps10)
             frame_delta == IF rounded = 0
                            THEN (IF delta_seconds > 0 THEN 1 ELSE -1)
                            ELSE rounded
         IN  update_frame_display(s1, s1.slider + frame_delta)

goto_frame(s, frame_number) ==
    IF ~s.cap \/ ~s.slider_enabled THEN s
    ELSE update_frame_display(IF s.timer THEN stop_playback(s) ELSE s, frame_number)

\* -------------------------------------------------- VideoCropper: handlers
select_range(s, range_id) ==
    LET s1 == [s EXCEPT !.sel = range_id]
    IN  IF found(s1, range_id)
        THEN LET r == find_range_by_id(s1, range_id)
                 s2 == [s1 EXCEPT !.start_text = Str(r.start),
                                  !.dur_text = Str(r.end - r.start)]
             IN  IF s2.frame_count > 0
                 THEN slider_setValue(update_frame_display(s2, r.start), r.start)
                 ELSE s2
        ELSE [s1 EXCEPT !.sel = NoId, !.start_text = Str(0),
                        !.dur_text = Str(DefaultDuration)]

\* select_range(None): the list has no item left.
select_none(s) ==
    [s EXCEPT !.sel = NoId, !.start_text = NonNumeric, !.dur_text = NonNumeric]

\* int(duration_input.text()), 60 when it is not a positive number.
input_duration(s) ==
    IF IsInt(s.dur_text) /\ Int_(s.dur_text) > 0
    THEN Int_(s.dur_text) ELSE DefaultDuration

\* default_bounds without the clamp of the end to the length of the video.
default_bounds_unclamped(s) ==
    [start |-> s.slider, end |-> s.slider + input_duration(s)]

\* The bounds add_new_range() takes from the slider and the duration input.
default_bounds(s) ==
    LET start_frame == s.slider
        end_frame == Min(start_frame + input_duration(s), s.frame_count)
        end_adj == IF end_frame <= start_frame
                   THEN Min(start_frame + 1, s.frame_count) ELSE end_frame
        start_adj == IF end_frame <= start_frame /\ start_frame >= end_adj
                     THEN Max(0, end_adj - 1) ELSE start_frame
    IN  [start |-> start_adj, end |-> end_adj]

\* add_new_range that takes the slider's bounds whatever it is given.
add_new_range_at_slider(s, explicit, start, end, crop) ==
    IF s.cur = NoVideo THEN s
    ELSE LET b == default_bounds(s)
             new_range_data ==
                 [id |-> s.next_id, start |-> b.start, end |-> b.end,
                  crop |-> IF explicit THEN crop ELSE None,
                  index |-> Len(s.video_data[s.cur]) + 1]
         IN  select_range([s EXCEPT !.video_data[s.cur] = Append(@, new_range_data),
                                    !.next_id = @ + 1],
                          new_range_data.id)

\* add_new_range(start, end, crop); explicit = FALSE is add_new_range().
add_new_range(s, explicit, start, end, crop) ==
    IF s.cur = NoVideo THEN s
    ELSE LET video_ranges == s.video_data[s.cur]
             b == IF explicit THEN [start |-> start, end |-> end]
                  ELSE default_bounds(s)
             new_range_data ==
                 [id |-> s.next_id, start |-> b.start, end |-> b.end,
                  crop |-> IF explicit THEN crop ELSE None,
                  index |-> Len(video_ranges) + 1]
             s1 == [s EXCEPT !.video_data[s.cur] = Append(@, new_range_data),
                             !.next_id = @ + 1]
         IN  select_range(s1, new_range_data.id)

add_range_at_current_frame(s) == add_new_range(s, FALSE, 0, 0, None)

\* without that leaves the index of the remaining ranges as it was.
without_renumbering(ranges, range_id) ==
    SelectSeq(ranges, LAMBDA r : r.id # range_id)

\* [r for r in ranges if r["id"] != id], then r["index"] = i + 1.
without(ranges, range_id) ==
    LET keep == SelectSeq(ranges, LAMBDA r : r.id # range_id)
    IN  [i \in 1..Len(keep) |-> [keep[i] EXCEPT !.index = i]]

\* remove_selected_range that leaves the selection on the removed range.
remove_selected_range_keeping(s) ==
    IF s.sel = NoId \/ s.cur = NoVideo THEN s
    ELSE [s EXCEPT !.video_data[s.cur] = without(@, s.sel)]

remove_selected_range(s) ==
    IF s.sel = NoId \/ s.cur = NoVideo THEN s
    ELSE LET ranges == s.video_data[s.cur]
             row == range_row(s, s.sel) - 1
             left == without(ranges, s.sel)
             s1 == [s EXCEPT !.video_data[s.cur] = left]
         IN  IF Len(left) >= Len(ranges) THEN s1
             ELSE IF Len(left) > 0
             THEN select_range(s1, left[Min(row, Len(left) - 1) + 1].id)
             ELSE select_none(s1)

clear_current_range_crop(s) ==
    IF s.sel = NoId THEN s
    ELSE IF found(s, s.sel) THEN set_range(s, s.sel, "crop", None)
    ELSE s

\* update_range_duration_from_input without the clamp of the new end.
update_range_duration_unclamped(s) ==
    IF s.sel = NoId \/ ~found(s, s.sel) \/ ~IsInt(s.start_text) \/ ~IsInt(s.dur_text)
    THEN s
    ELSE IF Int_(s.dur_text) <= 0 THEN s
    ELSE set_range(s, s.sel, "end", Int_(s.start_text) + Int_(s.dur_text))

update_range_duration_from_input(s) ==
    IF s.sel = NoId \/ ~found(s, s.sel) THEN s
    ELSE LET range_data == find_range_by_id(s, s.sel)
             old_duration == range_data.end - range_data.start
         IN  IF ~IsInt(s.start_text) \/ ~IsInt(s.dur_text)
             THEN \* ValueError: both inputs are reset from the stored range
                  [s EXCEPT !.start_text = Str(range_data.start),
                            !.dur_text = Str(old_duration)]
             ELSE LET start_frame == Int_(s.start_text)
                      new_duration == Int_(s.dur_text)
                      new_end == Min(start_frame + new_duration, s.frame_count)
                  IN  IF new_duration <= 0 \/ new_end <= start_frame
                      THEN [s EXCEPT !.dur_text = Str(old_duration)]
                      ELSE [set_range(s, s.sel, "end", new_end) EXCEPT
                               !.dur_text = Str(new_end - start_frame)]

nudge_end_frame(s, delta) ==
    IF s.sel = NoId \/ ~IsInt(s.dur_text) THEN s
    ELSE LET current_duration == Int_(s.dur_text)
             new_duration == Max(1, current_duration + delta)
         IN  update_range_duration_from_input(
                 [s EXCEPT !.dur_text = Str(new_duration)])

\* nudge_start_frame without the clamp of the new start at frame 0.
nudge_start_frame_unbounded(s, delta) ==
    IF s.sel = NoId \/ ~found(s, s.sel) THEN s
    ELSE LET range_data == find_range_by_id(s, s.sel)
             new_start == range_data.start + delta
             new_end == Min(new_start + (range_data.end - range_data.start),
                            s.frame_count)
         IN  IF new_start >= new_end THEN s
             ELSE update_frame_display(
                    [set_range(set_range(s, s.sel, "start", new_start),
                               s.sel, "end", new_end)
                       EXCEPT !.start_text = Str(new_start),
                              !.dur_text = Str(new_end - new_start)],
                    new_start)

nudge_start_frame(s, delta) ==
    IF s.sel = NoId \/ ~found(s, s.sel) THEN s
    ELSE LET range_data == find_range_by_id(s, s.sel)
             current_duration == range_data.end - range_data.start
             new_start == Max(0, range_data.start + delta)
             new_end == Min(new_start + current_duration, s.frame_count)
         IN  IF new_start >= new_end THEN s
             ELSE update_frame_display(
                    [set_range(set_range(s, s.sel, "start", new_start),
                               s.sel, "end", new_end)
                       EXCEPT !.start_text = Str(new_start),
                              !.dur_text = Str(new_end - new_start)],
                    new_start)

toggle_play_selected_range(s) ==
    IF s.sel = NoId \/ ~found(s, s.sel) THEN s
    ELSE LET range_data == find_range_by_id(s, s.sel)
         IN  toggle_range_playback(s, range_data.start, range_data.end)

\* ------------------------------------------------ VideoCropper: crop gesture
original_width(s) == VideoProps(s.cur).width
original_height(s) == VideoProps(s.cur).height

\* The display rectangle in source pixels: each side scaled and truncated.
crop_mapped(s, rect) ==
    LET pw == VideoProps(s.cur).pix_w
        ph == VideoProps(s.cur).pix_h
    IN  [x |-> IntTrunc(rect.x * original_width(s), pw),
         y |-> IntTrunc(rect.y * original_height(s), ph),
         w |-> IntTrunc(rect.w * original_width(s), pw),
         h |-> IntTrunc(rect.h * original_height(s), ph)]

\* crop_validated without the clamp.
crop_unvalidated(s, rect) == crop_mapped(s, rect)

\* "Validate coordinates": an invalid rectangle is clamped into the source.
crop_validated(s, rect) ==
    LET m == crop_mapped(s, rect)
    IN  IF m.x < 0 \/ m.y < 0 \/ m.w <= 0 \/ m.h <= 0
           \/ m.x + m.w > original_width(s) \/ m.y + m.h > original_height(s)
        THEN LET x == Max(0, m.x)
                 y == Max(0, m.y)
             IN  [x |-> x, y |-> y,
                  w |-> Min(m.w, original_width(s) - x),
                  h |-> Min(m.h, original_height(s) - y)]
        ELSE m

crop_rect_finalized(s, rect) ==
    IF s.cur = NoVideo \/ ~s.has_pixmap THEN s
    ELSE LET c == crop_validated(s, rect)
             crop_tuple == <<c.x, c.y, c.w, c.h>>
         IN  IF c.w <= 0 \/ c.h <= 0 THEN s
             ELSE IF s.sel # NoId
             THEN IF found(s, s.sel)
                  THEN set_range(s, s.sel, "crop", crop_tuple) ELSE s
             ELSE LET start_frame == s.slider
                      s1 == IF IsInt(s.dur_text) /\ Int_(s.dur_text) > 0 THEN s
                            ELSE [s EXCEPT !.dur_text = Str(DefaultDuration)]
                      duration == input_duration(s)
                      end_frame == Min(start_frame + duration, s.frame_count)
                  IN  IF end_frame <= start_frame
                      THEN IF start_frame + 1 > s.frame_count THEN s1
                           ELSE add_new_range(s1, TRUE, start_frame,
                                              start_frame + 1, crop_tuple)
                      ELSE add_new_range(s1, TRUE, start_frame, end_frame,
                                         crop_tuple)

\* ------------------------------------------------- VideoLoader: load_video
\* video_ranges.sort(key=index): a stable insertion sort.
RECURSIVE insert_by_index(_, _)
insert_by_index(sorted, r) ==
    IF sorted = <<>> THEN <<r>>
    ELSE IF sorted[Len(sorted)].index <= r.index THEN Append(sorted, r)
    ELSE Append(insert_by_index(SubSeq(sorted, 1, Len(sorted) - 1), r),
                sorted[Len(sorted)])

RECURSIVE sort_by_index(_)
sort_by_index(ranges) ==
    IF ranges = <<>> THEN <<>>
    ELSE insert_by_index(sort_by_index(SubSeq(ranges, 1, Len(ranges) - 1)),
                         ranges[Len(ranges)])

\* load_video_properties up to the display of the first frame.
properties_opened(s, v) ==
    LET P == VideoProps(v)
        s1 == [s EXCEPT !.cap = TRUE, !.pos = 0,
                        !.frame_count = P.frame_count,
                        !.fps10 = IF P.fps10 <= 0 THEN 300 ELSE P.fps10]
        s2 == slider_setMaximum(s1, s1.frame_count - 1)
    IN  IF P.frame_count <= 0
        THEN [s1 EXCEPT !.cap = FALSE, !.fps10 = 0]
        ELSE slider_setValue([s2 EXCEPT !.slider_enabled = TRUE], 0)

load_video_properties_ret(s, v) ==
    /\ VideoProps(v).frame_count > 0
    /\ update_frame_display_ret(properties_opened(s, v), 0)

load_video_properties(s, v) ==
    IF VideoProps(v).frame_count <= 0 THEN properties_opened(s, v)
    ELSE update_frame_display(properties_opened(s, v), 0)

\* load_video leaves by an exception: its failure branch addresses
\* main_app.end_frame_input, an attribute VideoCropper never creates.
load_video_raised(s, v) ==
    ~load_video_properties_ret([s EXCEPT !.cur = v, !.sel = NoId,
                                         !.cap = FALSE], v)

\* A load that adds a default range whether the video has ranges or not.
load_video_adding(s, v) ==
    LET s1 == [s EXCEPT !.cur = v, !.sel = NoId, !.cap = FALSE]
        s2 == load_video_properties(s1, v)
        s3 == [s2 EXCEPT !.video_data[v] = sort_by_index(@)]
    IN  IF ~load_video_properties_ret(s1, v)
        THEN [s2 EXCEPT !.cur = NoVideo, !.slider_enabled = FALSE,
                        !.start_text = Str(0)]
        ELSE add_new_range(s3, FALSE, 0, 0, None)

load_video(s, v) ==
    LET s1 == [s EXCEPT !.cur = v, !.sel = NoId, !.cap = FALSE]
        s2 == load_video_properties(s1, v)
        s3 == [s2 EXCEPT !.video_data[v] = sort_by_index(@)]
    IN  IF ~load_video_properties_ret(s1, v)
        THEN \* the handler ends at line 126 (end_frame_input does not exist)
             [s2 EXCEPT !.cur = NoVideo, !.slider_enabled = FALSE,
                        !.start_text = Str(0)]
        ELSE IF Len(s3.video_data[v]) = 0
        THEN add_new_range(s3, FALSE, 0, 0, None)
        ELSE select_range(s3, s3.video_data[v][1].id)

\* ---------------------------------------------------------- VideoExporter
\* Texts are sequences of words: <<>> is the empty string.  An optional text
\* is None or <<text>>.
simple_caption == <<>>             \* VideoCropper.simple_caption, never assigned
Description == <<"description">>   \* a text the captioning model returns
TriggerWords == {<<>>, <<"trg">>}  \* texts of trigger_word_input

\* The rows of video_list, top to bottom.
video_files == <<"a.mp4", "b.mp4">>

\* Artifacts of one range: the two images and the two videos.
CroppedImage == "cropped.png"
UncroppedImage == "uncropped.png"
CroppedVideo == "cropped.mp4"
UncroppedVideo == "uncropped.mp4"

\* stream.run returns, raises ffmpeg.Error, or raises something else.
FfmpegOutcomes == {"ok", "error", "exception"}

\* write_caption: the .txt file next to output_file, written when the caption
\* is not empty; the trigger word is prepended to a caption that is not empty.
write_caption(b, output_file, caption_content) ==
    LET caption == IF caption_content # None THEN caption_content[1]
                   ELSE simple_caption
        trigger_word == options.trigger_word
        text == IF trigger_word # <<>> /\ caption # <<>>
                THEN trigger_word \o caption ELSE caption
    IN  IF text # <<>>
        THEN [b EXCEPT !.txt = @ \cup {[of |-> output_file, text |-> text]}]
        ELSE b

\* The condition under which export_videos uses a crop tuple.
crop_valid(crop_tuple, v) ==
    ~(\/ crop_tuple[1] < 0 \/ crop_tuple[2] < 0
      \/ crop_tuple[3] <= 0 \/ crop_tuple[4] <= 0
      \/ crop_tuple[1] + crop_tuple[3] > VideoProps(v).width
      \/ crop_tuple[2] + crop_tuple[4] > VideoProps(v).height)

\* export_videos up to its loop: the pre-checks and the collection of the
\* checked videos that have ranges.
export_collect(b) ==
    LET wanted(i) == /\ video_files[i] \in options.checked
                     /\ video_data[video_files[i]] # <<>>
        rows == {i \in 1..Len(video_files) : wanted(i)}
        items_to_export == SelectSeq(video_files,
                              LAMBDA v : \E i \in rows : video_files[i] = v)
    IN  IF /\ ~options.export_cropped_flag
           /\ ~options.export_uncropped_flag
           /\ ~options.export_image_flag
        THEN [b EXCEPT !.message = "Nothing to Export"]
        ELSE IF items_to_export = <<>>
        THEN [b EXCEPT !.message = "Nothing Selected"]
        ELSE [NoBatch EXCEPT !.pc = "open", !.items = items_to_export,
                             !.item = 1]

\* The source and the range export_videos is at.
original_path(b) == b.items[b.item]
ranges(b) == video_data[original_path(b)]
range_data(b) == ranges(b)[b.idx]
total_source_frames(b) == VideoProps(original_path(b)).frame_count

\* The end of the batch: the message box of lines 619-620.
export_finished(b) == [b EXCEPT !.pc = "finished", !.message = "Export Complete"]

\* The loop over the sources moves on (the capture is released).
next_source(b) ==
    IF b.item < Len(b.items)
    THEN [b EXCEPT !.pc = "open", !.item = @ + 1, !.idx = 0]
    ELSE export_finished(b)

\* cv2.VideoCapture(original_path): a source that does not open is skipped.
open_source(b, opened) ==
    IF opened THEN [b EXCEPT !.pc = "range", !.idx = 1]
    ELSE next_source([b EXCEPT !.any_failed = TRUE])

\* The loop over the ranges of the source moves on.
next_range(b) ==
    IF b.idx < Len(ranges(b))
    THEN [b EXCEPT !.pc = "range", !.idx = @ + 1]
    ELSE next_source(b)

\* The validation without the upper bound on the start frame.
range_passes_unbounded(b) ==
    /\ ~(range_data(b).start < 0)
    /\ ~(range_data(b).end <= range_data(b).start)

\* A range passes the validation of export_videos.
range_passes(b) ==
    LET start_frame == range_data(b).start
        end_frame == range_data(b).end
    IN  /\ ~(start_frame < 0 \/ start_frame >= total_source_frames(b))
        /\ ~(end_frame <= start_frame)
        /\ ~(Min(end_frame, total_source_frames(b)) <= start_frame)

duration_frames(b) ==
    Min(range_data(b).end, total_source_frames(b)) - range_data(b).start

\* The head of the loop body: a range that fails the validation is skipped,
\* for the others the locals of the range are initialised.
validate_range(b) ==
    IF ~range_passes(b) THEN next_range([b EXCEPT !.any_failed = TRUE])
    ELSE [b EXCEPT !.pc = "image", !.out = {}, !.txt = {},
                   !.image_paths_for_gemini = <<>>,
                   !.video_path_for_gemini = "none", !.handed = {},
                   !.uploads = 0, !.deletes = 0, !.attempted = {},
                   !.failed = {}]

\* An artifact was attempted and its write failed.
artifact_failed(b, artifact) ==
    [b EXCEPT !.attempted = @ \cup {artifact}, !.failed = @ \cup {artifact},
              !.any_failed = TRUE]

\* cv2.imwrite of an image of the range, then its caption or its place in
\* image_paths_for_gemini.
write_image(b, artifact, imwrite) ==
    IF imwrite # "ok" THEN artifact_failed(b, artifact)
    ELSE LET b1 == [b EXCEPT !.attempted = @ \cup {artifact},
                             !.out = @ \cup {artifact}]
         IN  IF options.generate_gemini_flag
             THEN [b1 EXCEPT !.image_paths_for_gemini = Append(@, artifact)]
             ELSE write_caption(b1, artifact, None)

\* cap.read() after cap.set(CAP_PROP_POS_FRAMES, start_frame).
frame_read(b) ==
    range_data(b).start <
        total_source_frames(b) - VideoProps(original_path(b)).lost

\* 1. Export Image.
export_image(b, imwrite) ==
    LET crop_tuple == range_data(b).crop
        b0 == [b EXCEPT !.pc = "cropped"]
        b1 == IF /\ options.export_cropped_flag
                 /\ crop_tuple # None
                 /\ crop_valid(crop_tuple, original_path(b))
              THEN write_image(b0, CroppedImage, imwrite) ELSE b0
        b2 == IF options.export_uncropped_flag
              THEN write_image(b1, UncroppedImage, imwrite) ELSE b1
    IN  IF ~options.export_image_flag THEN b0
        ELSE IF ~frame_read(b) THEN [b0 EXCEPT !.any_failed = TRUE]
        ELSE b2

\* run_ffmpeg whose failure leaves the loop over the ranges of the source.
run_ffmpeg_aborting(b, artifact, ffmpeg) ==
    IF ffmpeg # "ok" THEN next_source(artifact_failed(b, artifact))
    ELSE LET b1 == [b EXCEPT
                       !.attempted = @ \cup {artifact},
                       !.out = @ \cup {artifact},
                       !.video_path_for_gemini =
                           IF artifact = CroppedVideo \/ @ = "none"
                           THEN artifact ELSE @]
         IN  IF ~options.generate_gemini_flag
             THEN write_caption(b1, artifact, None) ELSE b1

\* stream.run of a video of the range inside its try: the artifact and its
\* caption on success, the except clauses on ffmpeg.Error or another exception.
run_ffmpeg(b, artifact, ffmpeg) ==
    IF ffmpeg # "ok" THEN artifact_failed(b, artifact)
    ELSE LET b1 == [b EXCEPT
                       !.attempted = @ \cup {artifact},
                       !.out = @ \cup {artifact},
                       !.video_path_for_gemini =
                           IF artifact = CroppedVideo \/ @ = "none"
                           THEN artifact ELSE @]
         IN  IF ~options.generate_gemini_flag
             THEN write_caption(b1, artifact, None) ELSE b1

\* 2. Export Cropped Video.
export_cropped(b, ffmpeg) ==
    LET crop_tuple == range_data(b).crop
        b0 == [b EXCEPT !.pc = "uncropped"]
    IN  IF /\ options.export_cropped_flag
           /\ crop_tuple # None
           /\ crop_valid(crop_tuple, original_path(b))
        THEN run_ffmpeg(b0, CroppedVideo, ffmpeg) ELSE b0

\* 3. Export Uncropped Video.
export_uncropped(b, ffmpeg) ==
    LET b0 == [b EXCEPT !.pc = "caption"]
    IN  IF options.export_uncropped_flag
        THEN run_ffmpeg(b0, UncroppedVideo, ffmpeg) ELSE b0

\* The course of one call of generate_gemini_video_description, as the
\* captioning service decides it: whether the client is configured, whether
\* upload_file returns, how often the file is seen PROCESSING and the state it
\* reaches (or get_file raises), how many attempts of generate_content raise,
\* whether the answer that arrives has text, whether delete_file returns.
VideoOracles ==
    [configured : BOOLEAN, upload : {"ok", "raises"}, polls : 0..MaxPolls,
     state : {"ACTIVE", "FAILED", "STATE_UNSPECIFIED", "raises"},
     failures : 0..max_retries, answer : {"text", "empty"},
     delete : {"ok", "raises"}]

\* for attempt in range(max_retries): the value the loop returns.
RECURSIVE generate_attempts(_, _)
generate_attempts(oracle, attempt) ==
    IF attempt >= max_retries THEN None
    ELSE IF attempt < oracle.failures
    THEN IF attempt + 1 = max_retries THEN None
         ELSE generate_attempts(oracle, attempt + 1)
    ELSE IF oracle.answer = "text" THEN <<Description>> ELSE None

\* The try block: video_file after it, and the value returned from it or from
\* its except clause.
video_description_try(oracle) ==
    IF oracle.upload # "ok" THEN [video_file |-> FALSE, ret |-> None]
    ELSE IF oracle.polls > 0 /\ oracle.state = "raises"
    THEN [video_file |-> TRUE, ret |-> None]
    ELSE IF oracle.state = "FAILED" THEN [video_file |-> TRUE, ret |-> None]
    ELSE IF oracle.state # "ACTIVE" THEN [video_file |-> TRUE, ret |-> None]
    ELSE [video_file |-> TRUE, ret |-> generate_attempts(oracle, 0)]

\* A cleanup that runs only after a description was generated.
video_description_cleanup_on_success(tried) ==
    [ret |-> tried.ret,
     uploads |-> IF tried.video_file THEN 1 ELSE 0,
     deletes |-> IF tried.video_file /\ tried.ret # None THEN 1 ELSE 0]

\* The finally block: delete_file is called when video_file is set.
video_description_finally(tried) ==
    [ret |-> tried.ret,
     uploads |-> IF tried.video_file THEN 1 ELSE 0,
     deletes |-> IF tried.video_file THEN 1 ELSE 0]

generate_gemini_video_description(oracle) ==
    IF ~oracle.configured THEN [ret |-> None, uploads |-> 0, deletes |-> 0]
    ELSE video_description_finally(video_description_try(oracle))

\* The loop over image_paths_for_gemini: generate_gemini_caption answers for
\* the images of the set answered and returns None for the others.
RECURSIVE caption_images(_, _, _)
caption_images(b, image_paths, answered) ==
    IF image_paths = <<>> THEN b
    ELSE LET img_path == Head(image_paths)
             b1 == [b EXCEPT !.handed = @ \cup {img_path}]
         IN  caption_images(
                 IF img_path \in answered
                 THEN write_caption(b1, img_path, <<Description>>)
                 ELSE write_caption(b1, img_path, None),
                 Tail(image_paths), answered)

\* A caption step that hands over the images as well as the video.
export_caption_all(b, oracle, answered) ==
    IF ~options.generate_gemini_flag THEN next_range(b)
    ELSE LET called == generate_gemini_video_description(oracle)
             b1 == IF b.video_path_for_gemini # "none"
                   THEN write_caption(
                            [b EXCEPT !.handed = @ \cup {b.video_path_for_gemini},
                                      !.uploads = called.uploads,
                                      !.deletes = called.deletes],
                            b.video_path_for_gemini, called.ret)
                   ELSE b
         IN  next_range(caption_images(b1, b.image_paths_for_gemini, answered))

\* 4. Generate Gemini Descriptions/Captions, and the end of the loop body.
export_caption(b, oracle, answered) ==
    IF ~options.generate_gemini_flag THEN next_range(b)
    ELSE IF b.video_path_for_gemini # "none"
    THEN LET called == generate_gemini_video_description(oracle)
             b1 == [b EXCEPT !.handed = @ \cup {b.video_path_for_gemini},
                             !.uploads = called.uploads,
                             !.deletes = called.deletes]
         IN  next_range(IF called.ret # None
                        THEN write_caption(b1, b.video_path_for_gemini, called.ret)
                        ELSE write_caption(b1, b.video_path_for_gemini, None))
    ELSE IF b.image_paths_for_gemini # <<>>
    THEN next_range(caption_images(b, b.image_paths_for_gemini, answered))
    ELSE next_range(b)

\* video_data as load_session reads it from a session file whose videos were
\* replaced since: a.mp4 with a range, a range that ends past the video and
\* whose crop leaves the frame, and an empty range; b.mp4 with a range at the
\* frame that does not decode, a range past the video, a range that starts
\* before it and a range over all of it.
SessionRange(id, start, end, crop, index) ==
    [id |-> id, start |-> start, end |-> end, crop |-> crop, index |-> index]

SessionData ==
    [v \in Videos |->
        IF v = "a.mp4"
        THEN << SessionRange(1, 0, 2, <<0, 0, 2, 3>>, 1),
                SessionRange(2, 1, 5, <<3, 0, 2, 3>>, 2),
                SessionRange(3, 1, 1, None, 3) >>
        ELSE << SessionRange(4, 2, 3, None, 1),
                SessionRange(5, 3, 4, None, 2),
                SessionRange(6, -1, 1, <<0, 0, 4, 3>>, 3),
                SessionRange(7, 0, 9, None, 4) >>]

\* ------------------------------------------------------------- UI events
Deltas == {-2, -1, 1, 2}                 \* nudge_*_frame(delta)
Durations == 1..(MaxFrames + 1)          \* texts duration_input can commit
Frames == 0..MaxFrames                   \* frame numbers typed or scrubbed to

\* Texts duration_input can be left with that its QIntValidator(1, 99999)
\* holds back as Intermediate: editingFinished is not emitted for them.
Uncommitted == {Str(0), NonNumeric}

\* Rectangles a crop gesture can end with, in display pixels (the pixmap of a
\* frame is 128 x 96, a thirty-second of a source pixel per display pixel).
\* CornerRect is stored as a crop of its own; the other rectangles that are
\* stored at all are stored as the same crop.
CornerRect == [x |-> 64, y |-> 32, w |-> 192, h |-> 64]  \* past right and bottom
CropRects ==
    { [x |-> 0, y |-> 0, w |-> 64, h |-> 96],     \* inside the pixmap
      [x |-> -32, y |-> 0, w |-> 64, h |-> 96],   \* starts left of the pixmap
      CornerRect,
      [x |-> 32, y |-> 0, w |-> 20, h |-> 96],    \* thinner than a source pixel
      [x |-> 192, y |-> 0, w |-> 64, h |-> 32] }  \* wholly outside the pixmap

\* itemClicked of video_list, on a video of the set V.
LoadVideo(V, max_ids) ==
    \E v \in V :
        /\ video_data[v] # <<>> \/ next_id <= max_ids
        /\ Commit(load_video(State, v))

\* itemClicked of video_list on the row of the unreadable file.
LoadUnreadable == Commit(load_video(State, Unreadable))

\* clicked of add_range_button.
AddRangeHere(max_ids) ==
    /\ cur # NoVideo
    /\ next_id <= max_ids
    /\ Commit(add_range_at_current_frame(State))

\* mouseReleaseEvent of the scene with a drawn rectangle: it is finalized
\* when it is at least MinCropSide wide and high.
CropFinalized(Rects, max_ids) ==
    \E rect \in Rects :
        /\ rect.w >= MinCropSide /\ rect.h >= MinCropSide
        /\ cur # NoVideo
        /\ sel # NoId \/ next_id <= max_ids
        /\ Commit(crop_rect_finalized(State, rect))

\* itemClicked of clip_range_list.
SelectRange ==
    \E i \in 1..Len(ranges_of(State)) :
        Commit(select_range(State, ranges_of(State)[i].id))

\* editingFinished of duration_input after the text d was typed.
EditDuration ==
    \E d \in Durations :
        Commit(update_range_duration_from_input([State EXCEPT !.dur_text = Str(d)]))

\* duration_input is edited and left with a text that is not committed.
TypeDuration ==
    \E text \in Uncommitted :
        /\ dur_text # text
        /\ Commit([State EXCEPT !.dur_text = text])

\* keys A / S.
NudgeStart ==
    \E delta \in Deltas :
        /\ sel # NoId
        /\ Commit(nudge_start_frame(State, delta))

\* keys Q / W.
NudgeEnd ==
    \E delta \in Deltas :
        /\ sel # NoId
        /\ Commit(nudge_end_frame(State, delta))

\* clicked of remove_range_button.
RemoveRange ==
    /\ sel # NoId
    /\ Commit(remove_selected_range(State))

\* clicked of clear_crop_button.
ClearCrop ==
    /\ sel # NoId
    /\ Commit(clear_current_range_crop(State))

\* key Z.
ToggleLoop == Commit(toggle_loop_playback(State))

\* key C.
TogglePlayForward ==
    /\ slider_enabled
    /\ Commit(toggle_play_forward(State))

\* clicked of play_range_button.
TogglePlayRange ==
    /\ sel # NoId
    /\ Commit(toggle_play_selected_range(State))

\* timeout of playback_timer.
Tick ==
    /\ timer
    /\ Commit(playback_step(State))

\* valueChanged / sliderMoved of the slider: the user moves it to position.
Scrub ==
    \E position \in 0..slider_max :
        /\ slider_enabled
        /\ position \in Frames
        /\ position # slider
        /\ Commit(slider_setValue(State, position))

\* keys Left / Right, the frame buttons.
StepFrame ==
    \E delta \in {-1, 1} :
        /\ slider_enabled
        /\ Commit(step_frame(State, delta))

\* keys Shift+Left / Shift+Right.
JumpFrames ==
    \E delta_seconds \in {-1, 1} :
        /\ slider_enabled
        /\ Commit(jump_frames(State, delta_seconds))

\* returnPressed of goto_frame_input.
GotoFrame ==
    \E frame_number \in Frames :
        /\ slider_enabled
        /\ Commit(goto_frame(State, frame_number))

\* The range store: the events that create, edit and delete ranges of one
\* video, and the slider that positions them.
NextRanges ==
    \/ LoadVideo({"a.mp4"}, MaxIds)
    \/ AddRangeHere(MaxIds)
    \/ CropFinalized(CropRects \ {CornerRect}, MaxIds)
    \/ SelectRange
    \/ EditDuration
    \/ TypeDuration
    \/ NudgeStart
    \/ NudgeEnd
    \/ RemoveRange
    \/ ClearCrop
    \/ Scrub

SpecRanges == Init /\ [][NextRanges]_vars

\* The video list with three rows, one of them unreadable: loading switches
\* between the videos while ranges are added, selected and removed.
NextLoad ==
    \/ LoadVideo(Videos, MaxLoadIds)
    \/ LoadUnreadable
    \/ AddRangeHere(MaxLoadIds)
    \/ SelectRange
    \/ RemoveRange
    \/ Scrub

SpecLoad == Init /\ [][NextLoad]_vars

\* The range list: the events that add, select and remove the ranges of one
\* video.
NextList ==
    \/ LoadVideo({"a.mp4"}, MaxListIds)
    \/ AddRangeHere(MaxListIds)
    \/ CropFinalized(CropRects, MaxListIds)
    \/ SelectRange
    \/ RemoveRange
    \/ Scrub

SpecList == Init /\ [][NextList]_vars

\* The playback controller: the three continuous modes, the timer, the one-shot
\* seeks, and the range events that can happen while a mode runs.
NextPlay ==
    \/ LoadVideo({"a.mp4"}, MaxPlayIds)
    \/ AddRangeHere(MaxPlayIds)
    \/ SelectRange
    \/ EditDuration
    \/ NudgeStart
    \/ NudgeEnd
    \/ RemoveRange
    \/ ToggleLoop
    \/ TogglePlayForward
    \/ TogglePlayRange
    \/ Tick
    \/ Scrub
    \/ StepFrame
    \/ JumpFrames
    \/ GotoFrame

SpecPlay == Init /\ [][NextPlay]_vars

\* The playback controller on b.mp4, whose last frame cannot be decoded: the
\* three continuous modes, the timer and the events that position them.
NextDecode ==
    \/ LoadVideo({"b.mp4"}, MaxDecodeIds)
    \/ SelectRange
    \/ EditDuration
    \/ NudgeStart
    \/ ToggleLoop
    \/ TogglePlayForward
    \/ TogglePlayRange
    \/ Tick
    \/ Scrub

SpecDecode == Init /\ [][NextDecode]_vars

\* The variables export_videos and the export widgets leave alone.
editor_vars ==
    <<video_data, cur, sel, next_id, cap, frame_count, fps10, pos, shown,
      slider, slider_max, slider_enabled, label, start_text, dur_text,
      is_playing, loop_playback, is_playing_range, timer, pb_start, pb_end,
      range_end, has_pixmap>>

\* No export runs and no message box is open.
at_rest == batch.pc = "idle" /\ batch.message = "none"

\* clicked of one of the four export checkboxes.
ToggleOption ==
    \E flag \in {"export_cropped_flag", "export_uncropped_flag",
                 "export_image_flag", "generate_gemini_flag"} :
        /\ at_rest
        /\ options' = [options EXCEPT ![flag] = ~@]
        /\ UNCHANGED <<editor_vars, batch, gemini, session, disk, scene, mapping, naming, filters, fps_run>>

\* trigger_word_input is edited.
EditTriggerWord ==
    \E text \in TriggerWords :
        /\ at_rest
        /\ text # options.trigger_word
        /\ options' = [options EXCEPT !.trigger_word = text]
        /\ UNCHANGED <<editor_vars, batch, gemini, session, disk, scene, mapping, naming, filters, fps_run>>

\* The check box of a row of video_list is clicked.
CheckVideo ==
    \E v \in Videos :
        /\ at_rest
        /\ options' = [options EXCEPT !.checked =
                          IF v \in @ THEN @ \ {v} ELSE @ \cup {v}]
        /\ UNCHANGED <<editor_vars, batch, gemini, session, disk, scene, mapping, naming, filters, fps_run>>

\* clicked of submit_button: export_videos up to its loop.
ExportClicked ==
    /\ at_rest
    /\ batch' = export_collect(NoBatch)
    /\ UNCHANGED <<editor_vars, options, gemini, session, disk, scene, mapping, naming, filters, fps_run>>

\* The message box export_videos ended with is closed.
Dismiss ==
    /\ batch.pc \in {"idle", "finished"}
    /\ batch.message # "none"
    /\ batch' = NoBatch
    /\ UNCHANGED <<editor_vars, options, gemini, session, disk, scene, mapping, naming, filters, fps_run>>

\* export_videos opens the next source.
OpenSource ==
    \E opened \in BOOLEAN :
        /\ batch.pc = "open"
        /\ batch' = open_source(batch, opened)
        /\ UNCHANGED <<editor_vars, options, gemini, session, disk, scene, mapping, naming, filters, fps_run>>

\* export_videos enters its loop body for the next range.
ValidateRange ==
    /\ batch.pc = "range"
    /\ batch' = validate_range(batch)
    /\ UNCHANGED <<editor_vars, options, gemini, session, disk, scene, mapping, naming, filters, fps_run>>

\* The four steps of the loop body.
ExportImage ==
    \E imwrite \in {"ok", "raises"} :
        /\ batch.pc = "image"
        /\ batch' = export_image(batch, imwrite)
        /\ UNCHANGED <<editor_vars, options, gemini, session, disk, scene, mapping, naming, filters, fps_run>>

ExportCropped ==
    \E ffmpeg \in FfmpegOutcomes :
        /\ batch.pc = "cropped"
        /\ batch' = export_cropped(batch, ffmpeg)
        /\ UNCHANGED <<editor_vars, options, gemini, session, disk, scene, mapping, naming, filters, fps_run>>

ExportUncropped ==
    \E ffmpeg \in FfmpegOutcomes :
        /\ batch.pc = "uncropped"
        /\ batch' = export_uncropped(batch, ffmpeg)
        /\ UNCHANGED <<editor_vars, options, gemini, session, disk, scene, mapping, naming, filters, fps_run>>

ExportCaption ==
    \E oracle \in VideoOracles, answered \in SUBSET {CroppedImage, UncroppedImage} :
        /\ batch.pc = "caption"
        /\ batch' = export_caption(batch, oracle, answered)
        /\ UNCHANGED <<editor_vars, options, gemini, session, disk, scene, mapping, naming, filters, fps_run>>

\* The exporter: the export widgets and export_videos, on the session that
\* load_session read.
InitExport ==
    /\ video_data = SessionData
    /\ session = ListedSession
    /\ disk = session_file(SessionData)
    /\ Constructed

NextExport ==
    \/ ToggleOption
    \/ EditTriggerWord
    \/ CheckVideo
    \/ ExportClicked
    \/ Dismiss
    \/ OpenSource
    \/ ValidateRange
    \/ ExportImage
    \/ ExportCropped
    \/ ExportUncropped
    \/ ExportCaption

SpecExport == InitExport /\ [][NextExport]_vars

\* ------------------------------------- VideoExporter: the captioning calls
\* One call of generate_gemini_video_description or generate_gemini_caption
\* as a process: gemini.pc is the position in the function's body, each
\* action below is one step of it.  The file service is part of the state:
\* gemini.server is the state of the uploaded file at the service ("lost":
\* get_file raises), gemini.state is video_file.state.name as last fetched.
\* polls counts the turns of the polling loop up to MaxPolls and then stays.
FileStates == {"PROCESSING", "ACTIVE", "FAILED", "STATE_UNSPECIFIED"}
GenerateOutcomes == {"text", "empty", "deadline", "error"}

\* time.sleep(2 ** attempt)
backoff(attempt) == 2 ^ attempt

\* The locals of a call at its entry.
call_begin(g, fn) ==
    [g EXCEPT !.fn = fn, !.video_file = FALSE, !.server = "none",
              !.state = "none", !.polls = 0, !.attempt = 0, !.calls = 0,
              !.slept = <<>>, !.ret = None, !.deletes = 0]

\* _configure_gemini: the exporter after it, and the value it returns.
configure_gemini(g, configure) ==
    IF g.gemini_model THEN [g |-> g, ret |-> TRUE]
    ELSE IF ~g.api_key THEN [g |-> g, ret |-> FALSE]
    ELSE IF configure = "ok"
    THEN [g |-> [g EXCEPT !.gemini_model = TRUE], ret |-> TRUE]
    ELSE [g |-> [g EXCEPT !.gemini_model = FALSE], ret |-> FALSE]

\* generate_gemini_video_description up to the try block.
video_description_enter(g, configure) ==
    LET c == configure_gemini(call_begin(g, "video"), configure)
    IN  IF ~c.g.gemini_model /\ ~c.ret
        THEN [c.g EXCEPT !.pc = "returned"]
        ELSE [c.g EXCEPT !.pc = "upload"]

\* video_file = genai.upload_file(path=video_path)
video_description_upload(g, upload, state) ==
    IF upload = "raises" THEN [g EXCEPT !.pc = "finally"]
    ELSE [g EXCEPT !.video_file = TRUE, !.server = state, !.state = state,
                   !.pc = "poll"]

\* The body of the while loop: time.sleep(5); video_file = genai.get_file(
\* video_file.name), and back to the test of the loop.
video_description_refetch(g) ==
    LET g1 == [g EXCEPT !.polls = Min(@ + 1, MaxPolls)]
    IN  IF g.server = "lost" THEN [g1 EXCEPT !.pc = "finally"]
        ELSE [g1 EXCEPT !.state = g.server, !.pc = "poll"]

\* One test of the while loop and what follows it: into the body of the
\* loop, or the checks of the state after it.
video_description_poll(g) ==
    IF g.state = "PROCESSING" THEN [g EXCEPT !.pc = "sleep"]
    ELSE IF g.state = "FAILED" THEN [g EXCEPT !.pc = "finally"]
    ELSE IF g.state # "ACTIVE" THEN [g EXCEPT !.pc = "finally"]
    ELSE [g EXCEPT !.pc = "generate"]

\* One turn of for attempt in range(max_retries) around generate_content.
video_description_generate(g, outcome) ==
    LET g1 == [g EXCEPT !.calls = @ + 1]
    IN  IF outcome = "text"
        THEN [g1 EXCEPT !.ret = <<Description>>, !.pc = "finally"]
        ELSE IF outcome = "empty" THEN [g1 EXCEPT !.pc = "finally"]
        ELSE IF g.attempt + 1 = max_retries THEN [g1 EXCEPT !.pc = "finally"]
        ELSE [g1 EXCEPT !.attempt = @ + 1,
                        !.slept = Append(@, IF outcome = "deadline" THEN 5
                                            ELSE backoff(g.attempt))]

\* finally: delete_file when video_file is set; its exception is swallowed.
video_description_cleanup(g) ==
    [g EXCEPT !.deletes = IF g.video_file THEN @ + 1 ELSE @,
              !.pc = "returned"]

\* generate_gemini_caption up to the retry loop: configuration, Image.open.
gemini_caption_enter(g, configure, opened) ==
    LET c == configure_gemini(call_begin(g, "image"), configure)
    IN  IF ~c.g.gemini_model /\ ~c.ret
        THEN [c.g EXCEPT !.pc = "returned"]
        ELSE IF opened # "ok" THEN [c.g EXCEPT !.pc = "returned"]
        ELSE [c.g EXCEPT !.pc = "caption"]

\* A retry loop that gives up one attempt late.
gemini_caption_attempt_late(g, outcome) ==
    LET g1 == [g EXCEPT !.calls = @ + 1]
    IN  IF outcome = "text"
        THEN [g1 EXCEPT !.ret = <<Description>>, !.pc = "returned"]
        ELSE IF outcome = "empty" THEN [g1 EXCEPT !.pc = "returned"]
        ELSE IF g.attempt = max_retries THEN [g1 EXCEPT !.pc = "returned"]
        ELSE [g1 EXCEPT !.attempt = @ + 1,
                        !.slept = Append(@, backoff(g.attempt))]

\* One turn of for attempt in range(max_retries) around generate_content.
gemini_caption_attempt(g, outcome) ==
    LET g1 == [g EXCEPT !.calls = @ + 1]
    IN  IF outcome = "text"
        THEN [g1 EXCEPT !.ret = <<Description>>, !.pc = "returned"]
        ELSE IF outcome = "empty" THEN [g1 EXCEPT !.pc = "returned"]
        ELSE IF g.attempt + 1 = max_retries THEN [g1 EXCEPT !.pc = "returned"]
        ELSE [g1 EXCEPT !.attempt = @ + 1,
                        !.slept = Append(@, backoff(g.attempt))]

other_vars == <<editor_vars, options, batch, session, disk, scene, mapping, naming, filters, fps_run>>
no_call == gemini.pc \in {"idle", "returned"}

\* textChanged of gemini_api_key_input: a key is typed or erased.
EditApiKey ==
    /\ no_call
    /\ gemini' = [gemini EXCEPT !.api_key = ~@]
    /\ UNCHANGED other_vars

DescribeVideo ==
    \E configure \in {"ok", "raises"} :
        /\ no_call
        /\ gemini' = video_description_enter(gemini, configure)
        /\ UNCHANGED other_vars

Upload ==
    \E upload \in {"ok", "raises"}, state \in FileStates :
        /\ gemini.pc = "upload"
        /\ gemini' = video_description_upload(gemini, upload, state)
        /\ UNCHANGED other_vars

\* The service finishes processing the file, or stops answering for it.
ServerSettles ==
    \E state \in (FileStates \cup {"lost"}) \ {"PROCESSING"} :
        /\ gemini.pc \in {"poll", "sleep"}
        /\ gemini.server = "PROCESSING"
        /\ gemini' = [gemini EXCEPT !.server = state]
        /\ UNCHANGED other_vars

Poll ==
    /\ gemini.pc = "poll"
    /\ gemini' = video_description_poll(gemini)
    /\ UNCHANGED other_vars

Refetch ==
    /\ gemini.pc = "sleep"
    /\ gemini' = video_description_refetch(gemini)
    /\ UNCHANGED other_vars

Generate ==
    \E outcome \in GenerateOutcomes :
        /\ gemini.pc = "generate"
        /\ gemini' = video_description_generate(gemini, outcome)
        /\ UNCHANGED other_vars

Cleanup ==
    /\ gemini.pc = "finally"
    /\ gemini' = video_description_cleanup(gemini)
    /\ UNCHANGED other_vars

CaptionImage ==
    \E configure \in {"ok", "raises"}, opened \in {"ok", "missing", "error"} :
        /\ no_call
        /\ gemini' = gemini_caption_enter(gemini, configure, opened)
        /\ UNCHANGED other_vars

CaptionAttempt ==
    \E outcome \in GenerateOutcomes \ {"deadline"} :
        /\ gemini.pc = "caption"
        /\ gemini' = gemini_caption_attempt(gemini, outcome)
        /\ UNCHANGED other_vars

NextCaption ==
    \/ EditApiKey
    \/ DescribeVideo
    \/ Upload
    \/ ServerSettles
    \/ Poll
    \/ Refetch
    \/ Generate
    \/ Cleanup
    \/ CaptionImage
    \/ CaptionAttempt

SpecCaption == Init /\ [][NextCaption]_vars

\* A call that was entered goes on: its steps are statements of one function
\* run by one thread.  Nothing makes the service settle.
FairCaption ==
    /\ SpecCaption
    /\ WF_vars(Upload) /\ WF_vars(Poll) /\ WF_vars(Refetch)
    /\ WF_vars(Generate) /\ WF_vars(Cleanup) /\ WF_vars(CaptionAttempt)

\* ------------------------------------------------ the session over restarts
WriteOutcomes == {"ok", "denied", "partial"}
memory == [session |-> session, video_data |-> video_data]

\* uuid.uuid4(): an id no stored range has.
fresh_id(vd) ==
    LET ids == UNION {{vd[v][i].id : i \in 1..Len(vd[v])} : v \in Videos}
    IN  IF ids = {} THEN 1
        ELSE 1 + CHOOSE m \in ids : \A n \in ids : n <= m

\* The state record after VideoCropper.__init__ with video_data as loaded.
constructed(vd) ==
    [video_data |-> vd, cur |-> NoVideo, sel |-> NoId,
     next_id |-> fresh_id(vd), cap |-> FALSE, frame_count |-> 0, fps10 |-> 0,
     pos |-> 0, shown |-> -1, slider |-> 0, slider_max |-> 99,
     slider_enabled |-> FALSE, label |-> -1, start_text |-> Str(0),
     dur_text |-> Str(DefaultDuration), is_playing |-> FALSE,
     loop_playback |-> FALSE, is_playing_range |-> FALSE, timer |-> FALSE,
     pb_start |-> -1, pb_end |-> -1, range_end |-> -1, has_pixmap |-> FALSE,
     seeks |-> 0, overlap |-> FALSE]

\* The program is started: __init__ with its call of load_session.
Start ==
    /\ ~session.running
    /\ LET c == load_session([session |-> NoSession, video_data |-> NoRanges], disk)
       IN  /\ session' = c.session
           /\ Assign(constructed(c.video_data))
    /\ UNCHANGED <<options, batch, gemini, disk, scene, mapping, naming, filters, fps_run>>

\* closeEvent: save_session, and the process ends whether it raised or not.
CloseEvent ==
    \E write \in WriteOutcomes :
        /\ session.running
        /\ LET saved == save_session(memory, disk, write)
           IN  /\ session' = [saved.session EXCEPT !.running = FALSE]
               /\ disk' = saved.disk
        /\ UNCHANGED <<editor_vars, options, batch, gemini, scene, mapping, naming, filters, fps_run>>

\* clicked of the folder button, the dialog answered with Folder.
LoadFolder ==
    \E write \in WriteOutcomes :
        /\ session.running
        /\ LET loaded == load_folder(memory, disk, write)
           IN  /\ session' = loaded.session
               /\ disk' = loaded.disk
        /\ UNCHANGED <<editor_vars, options, batch, gemini, scene, mapping, naming, filters, fps_run>>

\* Session files found at the first start.
SessionFiles ==
    { NoFile,
      [kind |-> "unreadable", data |-> NoData],
      [kind |-> "not_object", data |-> NoData],
      [kind |-> "corrupt", data |-> session_data(ListedSession, NoRanges)],
      [kind |-> "object", data |-> NoData],
      [kind |-> "object",
       data |-> [NoData EXCEPT !.folder_path = <<Folder>>,
                               !.video_files = <<folder_files>>]] }

\* Before the first start: a session file of SessionFiles is on the disk.
InitSession ==
    /\ disk \in SessionFiles
    /\ session = [NoSession EXCEPT !.running = FALSE]
    /\ video_data = NoRanges
    /\ Constructed

listed == session.running /\ "a.mp4" \in {session.video_list[i] : i \in 1..Len(session.video_list)}

NextSession ==
    \/ Start
    \/ CloseEvent
    \/ LoadFolder
    \/ listed /\ LoadVideo({"a.mp4"}, MaxSessionIds)
    \/ session.running /\ CropFinalized({CornerRect}, MaxSessionIds)
    \/ session.running /\ EditDuration
    \/ session.running /\ NudgeStart
    \/ session.running /\ NudgeEnd
    \/ session.running /\ RemoveRange
    \/ session.running /\ ClearCrop

SpecSession == InitSession /\ [][NextSession]_vars

\* ------------------------------------ CustomGraphicsScene and the ratio mode
\* A ratio is None or the pair <<n, d>> for n/d.  Points and rectangles are
\* in scene units; the pointer positions and the ratios of the model are such
\* that every product below is a whole number.
RatioNames == {"Free-form", "1:1 (Square)", "4:3 (Standard)", "2:1 (Cinematic)"}

\* VideoCropper.aspect_ratios: a numeric ratio as <<numerator, denominator>>.
aspect_ratios(ratio_name) ==
    CASE ratio_name = "1:1 (Square)" -> <<1, 1>>
      [] ratio_name = "4:3 (Standard)" -> <<4, 3>>
      [] ratio_name = "16:9 (Widescreen)" -> <<16, 9>>
      [] ratio_name = "9:16 (Vertical Video)" -> <<9, 16>>
      [] ratio_name = "2:1 (Cinematic)" -> <<2, 1>>
      [] ratio_name = "3:2 (Classic Photo)" -> <<3, 2>>
      [] ratio_name = "21:9 (Ultrawide)" -> <<21, 9>>
      [] OTHER -> None

\* Texts of fixed_width_input and fixed_height_input, and int() of them.
FixedTexts == {"", "x", "0", "48", "64"}
numeral(text) == text \in {"0", "48", "64"}
int(text) == CASE text = "48" -> 48 [] text = "64" -> 64 [] OTHER -> 0

\* A selector handler that does not look at the fixed resolution.
set_aspect_ratio_always(sc, ratio_name) ==
    [sc EXCEPT !.aspect_ratio = aspect_ratios(ratio_name)]

\* VideoCropper.set_aspect_ratio, slot of currentTextChanged ("Original" is
\* not an entry of the selector).
set_aspect_ratio(sc, ratio_name) ==
    IF sc.fixed_export_width = None
    THEN [sc EXCEPT !.aspect_ratio = aspect_ratios(ratio_name)]
    ELSE sc

\* aspect_ratio_combo.setCurrentText: currentTextChanged is emitted when the
\* text changes and the signals are not blocked.
combo_setCurrentText(sc, ratio_name, blocked) ==
    LET sc1 == [sc EXCEPT !.combo_text = ratio_name]
    IN  IF ratio_name # sc.combo_text /\ ~blocked
        THEN set_aspect_ratio(sc1, ratio_name) ELSE sc1

\* toggle_fixed_resolution_mode.  Disabling ends in the call of
\* on_aspect_ratio_changed, a method VideoCropper does not have: the handler
\* raises there, after the three assignments and before the status is set.
toggle_fixed_resolution_mode(sc, enable, width_str, height_str) ==
    IF enable
    THEN IF width_str = "" \/ height_str = ""
         THEN [sc EXCEPT !.status = "Invalid input"]
         ELSE IF ~numeral(width_str) \/ ~numeral(height_str)
         THEN [sc EXCEPT !.status = "Format Error"]
         ELSE IF int(width_str) <= 0 \/ int(height_str) <= 0
         THEN [sc EXCEPT !.status = "Invalid W/H"]
         ELSE combo_setCurrentText(
                  [sc EXCEPT !.fixed_export_width = <<int(width_str)>>,
                             !.fixed_export_height = <<int(height_str)>>,
                             !.combo_enabled = FALSE,
                             !.aspect_ratio = <<int(width_str), int(height_str)>>,
                             !.status = "Active"],
                  "Free-form", TRUE)
    ELSE [sc EXCEPT !.fixed_export_width = None,
                    !.fixed_export_height = None,
                    !.combo_enabled = TRUE]

\* QRectF(a, b).normalized()
rect_between(a, b) ==
    [x |-> Min(a[1], b[1]), y |-> Min(a[2], b[2]),
     w |-> Max(a[1], b[1]) - Min(a[1], b[1]),
     h |-> Max(a[2], b[2]) - Min(a[2], b[2])]

normalized(rect) ==
    [x |-> IF rect.w < 0 THEN rect.x + rect.w ELSE rect.x,
     y |-> IF rect.h < 0 THEN rect.y + rect.h ELSE rect.y,
     w |-> IF rect.w < 0 THEN -rect.w ELSE rect.w,
     h |-> IF rect.h < 0 THEN -rect.h ELSE rect.h]

\* "Appliquer la contrainte de ratio d'aspect": the width is cut to
\* height * ratio when the rectangle is wider than the ratio, else the height
\* is set to width / ratio; a height of 0 counts as 1 in the test.
constrained(rect, ratio) ==
    LET current_height == IF rect.h # 0 THEN rect.h ELSE 1
    IN  IF rect.w * ratio[2] > current_height * ratio[1]
        THEN [rect EXCEPT !.w = (current_height * ratio[1]) \div ratio[2]]
        ELSE [rect EXCEPT !.h = (rect.w * ratio[2]) \div ratio[1]]

\* "Limiter le rectangle aux limites de la scène": setRight, setBottom,
\* setLeft, setTop, each moving one edge and keeping the opposite one.
limited(rect, scene_w, scene_h) ==
    LET r1 == IF rect.x + rect.w > scene_w
              THEN [rect EXCEPT !.w = scene_w - rect.x] ELSE rect
        r2 == IF r1.y + r1.h > scene_h
              THEN [r1 EXCEPT !.h = scene_h - r1.y] ELSE r1
        r3 == IF r2.x < 0 THEN [r2 EXCEPT !.x = 0, !.w = r2.x + r2.w] ELSE r2
    IN  IF r3.y < 0 THEN [r3 EXCEPT !.y = 0, !.h = r3.y + r3.h] ELSE r3

\* mousePressEvent away from an existing crop item: the item is removed and
\* a new rectangle is begun.
mousePressEvent(sc, scene_pos) ==
    [sc EXCEPT !.crop_item = None, !.start_point = <<scene_pos>>,
               !.temp_rect = <<rect_between(scene_pos, scene_pos)>>]

\* mouseMoveEvent while a new rectangle is drawn (no crop item exists then).
mouseMoveEvent(sc, scene_pos, scene_w, scene_h) ==
    IF sc.start_point # None /\ sc.temp_rect # None
    THEN LET rect == rect_between(sc.start_point[1], scene_pos)
             shaped == IF sc.aspect_ratio # None
                       THEN constrained(rect, sc.aspect_ratio) ELSE rect
         IN  [sc EXCEPT !.temp_rect = <<limited(shaped, scene_w, scene_h)>>]
    ELSE sc

\* mouseReleaseEvent: the scene after it; finalized(sc) tells whether
\* crop_rect_finalized is called with the rectangle.
finalized(sc) ==
    /\ sc.start_point # None /\ sc.temp_rect # None
    /\ normalized(sc.temp_rect[1]).w >= MinCropSide
    /\ normalized(sc.temp_rect[1]).h >= MinCropSide

mouseReleaseEvent(sc) ==
    IF sc.start_point # None /\ sc.temp_rect # None
    THEN [sc EXCEPT !.temp_rect = None, !.start_point = None,
                    !.crop_item = IF finalized(sc)
                                  THEN <<normalized(sc.temp_rect[1])>> ELSE None]
    ELSE sc

\* Scene positions of the pointer: on the frame (128 x 96), on its edges, and
\* past its right edge.  A press exactly on the scene origin is left out.
Pointers == {<<x, y>> : x \in {0, 96, 144}, y \in {0, 48, 96}}
drawing == scene.start_point # None /\ scene.temp_rect # None
scene_w == VideoProps(cur).pix_w
scene_h == VideoProps(cur).pix_h
shape_vars == <<options, batch, gemini, session, disk, mapping, naming, filters, fps_run>>

\* currentTextChanged of aspect_ratio_combo, by the user.
SelectRatio ==
    \E ratio_name \in RatioNames :
        /\ scene.combo_enabled /\ ~drawing
        /\ ratio_name # scene.combo_text
        /\ scene' = combo_setCurrentText(scene, ratio_name, FALSE)
        /\ UNCHANGED <<editor_vars, shape_vars>>

\* clicked of apply_fixed_res_button, with the texts of the two fields.
ApplyFixedRes ==
    \E width_str \in FixedTexts, height_str \in FixedTexts :
        /\ ~drawing
        /\ scene' = toggle_fixed_resolution_mode(scene, TRUE, width_str, height_str)
        /\ UNCHANGED <<editor_vars, shape_vars>>

\* clicked of clear_fixed_res_button.
ClearFixedRes ==
    /\ ~drawing
    /\ scene' = toggle_fixed_resolution_mode(scene, FALSE, "", "")
    /\ UNCHANGED <<editor_vars, shape_vars>>

MousePress ==
    \E scene_pos \in Pointers \ {<<0, 0>>} :
        /\ has_pixmap /\ ~drawing
        /\ scene' = mousePressEvent(scene, scene_pos)
        /\ UNCHANGED <<editor_vars, shape_vars>>

MouseMove ==
    \E scene_pos \in Pointers :
        /\ drawing
        /\ scene' = mouseMoveEvent(scene, scene_pos, scene_w, scene_h)
        /\ UNCHANGED <<editor_vars, shape_vars>>

\* mouseReleaseEvent, with its call of crop_rect_finalized.
MouseRelease ==
    /\ drawing
    /\ scene' = mouseReleaseEvent(scene)
    /\ IF finalized(scene)
       THEN Assign(crop_rect_finalized(State, normalized(scene.temp_rect[1])))
       ELSE UNCHANGED editor_vars
    /\ UNCHANGED shape_vars

\* Shaping a crop: the ratio selector, the fixed resolution and the drawing
\* of a new rectangle on a loaded video.
NextDraw ==
    \/ LoadVideo({"a.mp4"}, MaxDrawIds)
    \/ SelectRatio
    \/ ApplyFixedRes
    \/ ClearFixedRes
    \/ MousePress
    \/ MouseMove
    \/ MouseRelease

SpecDraw == Init /\ [][NextDraw]_vars

\* ------------------------------------- source pixels and scene coordinates
\* A scene rectangle is a QRectF: its sides are the fractions x/dw, w/dw,
\* y/dh, h/dh.  A source rectangle holds integers.  Sizes are <<width, height>>.
\* Python computes the scale and the product in floating point: when both are
\* binary fractions the product is exact; when they are not and the exact
\* product is a whole number, the float product may fall just short of it
\* (49 * (1 / 49) is 0.9999999999999999) and int() then gives one less.
Roundings == {"exact", "below"}

RECURSIVE gcd(_, _)
gcd(a, b) == IF b = 0 THEN a ELSE gcd(b, a % b)

\* n/d (n >= 0, d > 0) is a binary fraction.
binary(n, d) == \E k \in 0..11 : d \div gcd(n, d) = 2 ^ k

\* int(value * scale) for value = num/den and scale = o/p; the fractions are
\* reduced before they are multiplied.
scaled(num, den, o, p, rounding) ==
    LET size == IF num >= 0 THEN num ELSE -num
        g == gcd(size, den)
        k == gcd(o, p)
        a == size \div g
        b == den \div g
        c == o \div k
        e == p \div k
        n == (a \div gcd(a, e)) * (c \div gcd(c, b))
        d == (b \div gcd(c, b)) * (e \div gcd(a, e))
        exact == binary(size, den) /\ binary(o, p)
        short == rounding = "below" /\ ~exact /\ n # 0 /\ d = 1
        whole == IF short THEN (n \div d) - 1 ELSE n \div d
    IN  IF num >= 0 THEN whole ELSE -whole

\* A mapping that scales both axes by the horizontal scale.
crop_from_scene_uniform(rect, source, display, rounding) ==
    [x |-> scaled(rect.x, rect.dw, source[1], display[1], rounding),
     y |-> scaled(rect.y, rect.dh, source[1], display[1], rounding),
     w |-> scaled(rect.w, rect.dw, source[1], display[1], rounding),
     h |-> scaled(rect.h, rect.dh, source[1], display[1], rounding)]

\* crop_rect_finalized, "Calculate Crop Data": scale_w = original_width /
\* pixmap.width(), scale_h likewise, x = int(rect.x() * scale_w), ...
crop_from_scene(rect, source, display, rounding) ==
    [x |-> scaled(rect.x, rect.dw, source[1], display[1], rounding),
     y |-> scaled(rect.y, rect.dh, source[2], display[2], rounding),
     w |-> scaled(rect.w, rect.dw, source[1], display[1], rounding),
     h |-> scaled(rect.h, rect.dh, source[2], display[2], rounding)]

\* A mapping to whole scene pixels.
scene_from_crop_truncated(crop, source, display) ==
    [x |-> IntTrunc(crop.x * display[1], source[1]),
     y |-> IntTrunc(crop.y * display[2], source[2]),
     w |-> IntTrunc(crop.w * display[1], source[1]),
     h |-> IntTrunc(crop.h * display[2], source[2]),
     dw |-> 1, dh |-> 1]

\* _load_range_crop: scale_w = pixmap.width() / original_width, scene_x =
\* x * scale_w, ...: the QRectF keeps the fractions.
scene_from_crop(crop, source, display) ==
    [x |-> crop.x * display[1], y |-> crop.y * display[2],
     w |-> crop.w * display[1], h |-> crop.h * display[2],
     dw |-> source[1], dh |-> source[2]]

\* A rectangle drawn on whole scene positions.
drawn_rect(x, y, w, h) == [x |-> x, y |-> y, w |-> w, h |-> h, dw |-> 1, dh |-> 1]

\* Sizes of videos and of the pixmaps they are shown as, and the rectangles
\* taken inside them: all of them in a small frame, some in a large one.
Sources == {<<4, 3>>, <<8, 6>>, <<1920, 1080>>}
Displays == {<<3, 2>>, <<4, 3>>, <<128, 72>>, <<128, 96>>, <<960, 540>>}
ExampleRect == [x |-> 100, y |-> 50, w |-> 200, h |-> 150]
ExampleCrop == [x |-> 200, y |-> 100, w |-> 400, h |-> 300]

RectsInside(size) ==
    IF size[1] <= 4
    THEN {r \in [x : 0..(size[1] - 1), y : 0..(size[2] - 1),
                 w : 1..size[1], h : 1..size[2]] :
             r.x + r.w <= size[1] /\ r.y + r.h <= size[2]}
    ELSE {r \in {ExampleRect, ExampleCrop,
                 [x |-> 0, y |-> 0, w |-> size[1], h |-> size[2]],
                 [x |-> size[1] - 1, y |-> size[2] - 1, w |-> 1, h |-> 1],
                 [x |-> 1, y |-> 2, w |-> 3, h |-> 1],
                 [x |-> 49, y |-> 7, w |-> 49, h |-> 21]} :
             r.x + r.w <= size[1] /\ r.y + r.h <= size[2]}

\* display_frame: pixmap.scaled(..., KeepAspectRatio) gives a pixmap whose
\* height is within a pixel of width * source height / source width.
kept_aspect(source, display) ==
    LET skew == display[2] * source[1] - display[1] * source[2]
    IN  skew <= source[1] /\ -skew <= source[1]

inside(crop, size) ==
    /\ crop.x >= 0 /\ crop.y >= 0 /\ crop.w > 0 /\ crop.h > 0
    /\ crop.x + crop.w <= size[1] /\ crop.y + crop.h <= size[2]

map_vars == <<editor_vars, options, batch, gemini, session, disk, scene, naming, filters, fps_run>>

\* A video of one of the sizes is loaded and its frame is displayed as a
\* pixmap of one of the sizes.
Display ==
    \E source \in Sources, display \in Displays :
        /\ kept_aspect(source, display)
        /\ mapping' = [NoMapping EXCEPT !.source = source, !.display = display]
        /\ UNCHANGED map_vars

\* A rectangle drawn on the pixmap is finalized: crop_rect_finalized maps it.
Draw ==
    \E rect \in RectsInside(mapping.display), rounding \in Roundings :
        /\ mapping.source # <<0, 0>>
        /\ mapping' = [mapping EXCEPT
               !.drawn = <<rect>>,
               !.crop = <<crop_from_scene(drawn_rect(rect.x, rect.y, rect.w, rect.h),
                                          mapping.source, mapping.display, rounding)>>,
               !.shown = None, !.back = None]
        /\ UNCHANGED map_vars

\* A range of the session carries a crop inside the video.
Stored ==
    \E crop \in RectsInside(mapping.source) :
        /\ mapping.source # <<0, 0>>
        /\ mapping' = [mapping EXCEPT !.drawn = None, !.crop = <<crop>>,
                                      !.shown = None, !.back = None]
        /\ UNCHANGED map_vars

\* The range is selected: _load_range_crop puts its crop on the scene.
Show ==
    /\ mapping.crop # None /\ mapping.shown = None
    /\ mapping' = [mapping EXCEPT !.shown =
           <<scene_from_crop(mapping.crop[1], mapping.source, mapping.display)>>]
    /\ UNCHANGED map_vars

\* The crop item on the scene is finalized again as it is.
Refinalize ==
    \E rounding \in Roundings :
        /\ mapping.shown # None
        /\ mapping' = [mapping EXCEPT !.back =
               <<crop_from_scene(mapping.shown[1], mapping.source,
                                 mapping.display, rounding)>>]
        /\ UNCHANGED map_vars

NextMap ==
    \/ Display
    \/ Draw
    \/ Stored
    \/ Show
    \/ Refinalize

SpecMap == Init /\ [][NextMap]_vars

\* ----------------------------------------------- playback left to itself
\* The playback timer fires for as long as it is started (QTimer, started
\* by _start_playback with the frame interval and stopped by stop_playback
\* only).  The user sets a playback up while the timer is stopped and then
\* leaves it alone; the one thing they do while it runs is to switch a
\* loop off.
NextRun ==
    \/ ~timer /\ LoadVideo({"a.mp4"}, MaxRunIds)
    \/ ~timer /\ AddRangeHere(MaxRunIds)
    \/ ~timer /\ SelectRange
    \/ ~timer /\ EditDuration
    \/ ~timer /\ Scrub
    \/ ~timer /\ ToggleLoop
    \/ ~timer /\ TogglePlayForward
    \/ ~timer /\ TogglePlayRange
    \/ timer /\ loop_playback /\ ToggleLoop
    \/ Tick

SpecRun == Init /\ [][NextRun]_vars

FairRun == SpecRun /\ WF_vars(Tick)

\* ------------------------------------- VideoExporter: the output names
\* export_videos seen as the process that names its outputs.  A file name is
\* a stem and an extension (os.path.splitext takes it apart); an output path
\* is a folder, a basename, a suffix and an extension.  A basename is the
\* text f"{prefix}_{file_counter:05d}_range{index}" or f"{stem}_range{index}",
\* kept as its parts: two basenames of one batch are the same text exactly
\* when their parts are equal.
FolderNames ==
    {[stem |-> "clip", ext |-> ".mp4"], [stem |-> "clip", ext |-> ".mov"],
     [stem |-> "b", ext |-> ".mp4"]}
PrefixTexts == {"", " ", "shot"}

\* str.strip() of the prefix field.
strip(text) == IF text = " " THEN "" ELSE text

\* os.path.splitext(display_name)
splitext(name) == <<name.stem, name.ext>>

\* The checked entries of the list with their ranges: one or two files of
\* the folder, each with ranges of index 1..N, of which some pass the range
\* validation.
NamedRanges ==
    UNION {[1..n -> [valid : BOOLEAN]] : n \in 1..MaxNamedRanges}
NamedItems ==
    {<<[display_name |-> f, ranges |-> r]>> : f \in FolderNames, r \in NamedRanges}
    \cup {items \in {<<[display_name |-> f, ranges |-> r],
                          [display_name |-> g, ranges |-> r]>> :
                            f \in FolderNames, g \in FolderNames, r \in NamedRanges} :
              items[1].display_name # items[2].display_name}

\* "Generate Base Output Filename for this Range", after the counter moved.
base_output_name(n) ==
    IF strip(n.prefix) # ""
    THEN [prefix |-> strip(n.prefix), counter |-> n.file_counter, stem |-> "",
          index |-> n.idx]
    ELSE [prefix |-> "", counter |-> 0,
          stem |-> splitext(n.items[n.item].display_name)[1], index |-> n.idx]

\* The paths one range writes: images, videos, and for each of them the
\* caption next to it (splitext(path)[0] + ".txt").
range_paths(n) ==
    LET base == base_output_name(n)
        ext == splitext(n.items[n.item].display_name)[2]
        path(dir, suffix, e) == [dir |-> dir, base |-> base, suffix |-> suffix, ext |-> e]
    IN  (IF n.image /\ n.cropped
         THEN {path("cropped", "_cropped", ".png"), path("cropped", "_cropped", ".txt")}
         ELSE {})
        \cup (IF n.image /\ n.uncropped
              THEN {path("uncropped", "", ".png"), path("uncropped", "", ".txt")}
              ELSE {})
        \cup (IF n.cropped
              THEN {path("cropped", "_cropped", ext), path("cropped", "_cropped", ".txt")}
              ELSE {})
        \cup (IF n.uncropped
              THEN {path("uncropped", "", ext), path("uncropped", "", ".txt")}
              ELSE {})

\* export_videos up to the loop over the sources: file_counter = 0.
names_begin(n, prefix, image, cropped, uncropped, items) ==
    [NoNaming EXCEPT !.pc = "range", !.prefix = prefix, !.image = image,
                     !.cropped = cropped, !.uncropped = uncropped,
                     !.items = items, !.item = 1, !.idx = 1]

\* The loops go on to the next range, the next source, or end.
names_advance(n) ==
    IF n.idx < Len(n.items[n.item].ranges) THEN [n EXCEPT !.idx = @ + 1]
    ELSE IF n.item < Len(n.items) THEN [n EXCEPT !.item = @ + 1, !.idx = 1]
    ELSE [n EXCEPT !.pc = "finished"]

\* One turn of the loop over the ranges of a source: a range that fails the
\* validation is skipped before a name is made.
names_range(n) ==
    IF ~n.items[n.item].ranges[n.idx].valid THEN names_advance(n)
    ELSE LET n1 == IF strip(n.prefix) # ""
                   THEN [n EXCEPT !.file_counter = @ + 1] ELSE n
             pair == <<n.item, n.idx>>
         IN  names_advance(
                 [n1 EXCEPT
                     !.named = @ \cup {[pair |-> pair, base |-> base_output_name(n1)]},
                     !.written = @ \cup {[pair |-> pair, path |-> p] :
                                            p \in range_paths(n1)}])

name_vars == <<editor_vars, options, batch, gemini, session, disk, scene, mapping,
              filters, fps_run>>

\* clicked of the export button, with the prefix field, the checkboxes and
\* the checked entries as they are.
NameBatch ==
    \E prefix \in PrefixTexts, image \in BOOLEAN, cropped \in BOOLEAN,
       uncropped \in BOOLEAN, items \in NamedItems :
        /\ naming.pc = "idle"
        /\ naming' = names_begin(naming, prefix, image, cropped, uncropped, items)
        /\ UNCHANGED name_vars

NameRange ==
    /\ naming.pc = "range"
    /\ naming' = names_range(naming)
    /\ UNCHANGED name_vars

\* The batch is over and its message box is dismissed: the locals of
\* export_videos are gone, file_counter stays.
NameDone ==
    /\ naming.pc = "finished"
    /\ naming' = [NoNaming EXCEPT !.file_counter = naming.file_counter]
    /\ UNCHANGED name_vars

NextNames ==
    \/ NameBatch
    \/ NameRange
    \/ NameDone

SpecNames == Init /\ [][NextNames]_vars

\* ----------------------------------- VideoExporter: the filter graphs
\* The steps export_videos puts on the ffmpeg stream of a range, in order:
\* a step is the filter's name and its arguments.
AllRatioNames ==
    {"Free-form", "1:1 (Square)", "4:3 (Standard)", "16:9 (Widescreen)",
     "9:16 (Vertical Video)", "2:1 (Cinematic)", "3:2 (Classic Photo)",
     "21:9 (Ultrawide)"}
FixedSizes == {1, 3, 48, 65}
FilterSources == {<<1, 1>>, <<4, 3>>, <<6, 5>>, <<1920, 1080>>}
SourceRates == {0, 4, 245, 300}

\* round(num / den) with the quotient computed in floating point: nearest
\* integer, ties to even; a quotient that is exactly k + 1/2 may come out
\* just below the half when the divisor is not a binary fraction.
round_quotient(num, den, inexact, rounding) ==
    LET q == num \div den
        r == num % den
    IN  IF 2 * r < den THEN q
        ELSE IF 2 * r > den THEN q + 1
        ELSE IF inexact /\ rounding = "below" THEN q
        ELSE IF q % 2 = 0 THEN q ELSE q + 1

\* A target size as it is.
plain_target(v) == Max(2, v)

\* max(2, (v // 2) * 2)
even_target(v) == Max(2, (v \div 2) * 2)

\* output_fps = round(fps) if fps > 0 else 30, and at least 1.
output_fps(rate10) ==
    IF rate10 <= 0 THEN 30 ELSE Max(1, Round10(rate10))

\* "Determine scaling based on mode": the two scale parameters, or None.
scale_params(fixed, ratio_text, orig, rounding) ==
    IF fixed # None
    THEN <<even_target(fixed[1]), even_target(fixed[2])>>
    ELSE LET ratio_value == aspect_ratios(ratio_text)
         IN  IF ratio_value = None THEN None
             ELSE LET inexact == ~binary(ratio_value[1], ratio_value[2])
                      target_w == IF ratio_value[1] >= ratio_value[2]
                                  THEN orig[1]
                                  ELSE round_quotient(orig[2] * ratio_value[1],
                                                      ratio_value[2], inexact, rounding)
                      target_h == IF ratio_value[1] >= ratio_value[2]
                                  THEN round_quotient(orig[1] * ratio_value[2],
                                                      ratio_value[1], inexact, rounding)
                                  ELSE orig[2]
                  IN  <<even_target(target_w), even_target(target_h)>>

\* stream.filter('scale', *scale_params) and stream.filter('setsar', '1').
scaling_steps(params) ==
    IF params = None THEN <<>>
    ELSE <<[name |-> "scale", args |-> params], [name |-> "setsar", args |-> <<1>>]>>

\* 2. Export Cropped Video: the filters between ffmpeg.input and output.
cropped_video_filters(fixed, ratio_text, orig, crop, rate10, rounding) ==
    <<[name |-> "fps", args |-> <<output_fps(rate10)>>],
      [name |-> "crop", args |-> <<crop.w, crop.h, crop.x, crop.y>>]>>
    \o scaling_steps(scale_params(fixed, ratio_text, orig, rounding))

\* 3. Export Uncropped Video: the filters between ffmpeg.input and output.
uncropped_video_filters(fixed, ratio_text, orig, rate10, rounding) ==
    <<[name |-> "fps", args |-> <<output_fps(rate10)>>]>>
    \o scaling_steps(scale_params(fixed, ratio_text, orig, rounding))

filter_vars == <<editor_vars, options, batch, gemini, session, disk, scene, mapping,
                naming, fps_run>>

\* The Apply button with a valid width and height: the selector shows
\* Free-form from then on.
FixedResolutionOn ==
    \E width \in FixedSizes, height \in FixedSizes :
        /\ filters' = [NoFilters EXCEPT !.fixed = <<width, height>>]
        /\ UNCHANGED filter_vars

\* Fixed resolution is off and an entry of the selector is chosen.
RatioChosen ==
    \E ratio_text \in AllRatioNames :
        /\ filters' = [NoFilters EXCEPT !.ratio_text = ratio_text]
        /\ UNCHANGED filter_vars

\* A range with a crop inside its source is exported, cropped and uncropped.
TranscodeRange ==
    \E orig \in FilterSources, rate10 \in SourceRates, rounding \in Roundings :
        \E crop \in {[x |-> 0, y |-> 0, w |-> orig[1], h |-> orig[2]],
                     [x |-> orig[1] - 1, y |-> 0, w |-> 1, h |-> 1]} :
            /\ filters' = [filters EXCEPT
                   !.source = orig, !.crop = <<crop>>,
                   !.cropped = <<cropped_video_filters(filters.fixed,
                                     filters.ratio_text, orig, crop, rate10, rounding)>>,
                   !.uncropped = <<uncropped_video_filters(filters.fixed,
                                       filters.ratio_text, orig, rate10, rounding)>>]
            /\ UNCHANGED filter_vars

NextFilters ==
    \/ FixedResolutionOn
    \/ RatioChosen
    \/ TranscodeRange

SpecFilters == Init /\ [][NextFilters]_vars

\* ------------------------------------------- VideoLoader: convert_folder_fps
\* What os.listdir of the source folder can return: names as stem and
\* extension, and whether the entry is a regular file.
FolderEntries ==
    <<[stem |-> "a", ext |-> ".mp4", isfile |-> TRUE],
      [stem |-> "b", ext |-> ".MOV", isfile |-> TRUE],
      [stem |-> "notes", ext |-> ".txt", isfile |-> TRUE],
      [stem |-> "c", ext |-> ".mkv", isfile |-> TRUE],
      [stem |-> "old", ext |-> ".avi", isfile |-> FALSE]>>

\* The folders: the entries at the positions of a set, in listing order.
Folders ==
    LET n == Min(MaxFolderEntries, Len(FolderEntries))
        at_positions(S) == SelectSeq([i \in 1..n |-> IF i \in S THEN <<FolderEntries[i]>> ELSE <<>>],
                                     LAMBDA e : e # <<>>)
    IN  {[i \in 1..Len(at_positions(S)) |-> at_positions(S)[i][1]] : S \in SUBSET (1..n)}

\* str.lower of an extension.
lower(ext) ==
    CASE ext = ".MOV" -> ".mov"
      [] ext = ".MP4" -> ".mp4"
      [] OTHER -> ext

\* f.lower().endswith(('.mp4', '.avi', '.mov', '.mkv')) and os.path.isfile.
is_video_file(entry) ==
    lower(entry.ext) \in {".mp4", ".avi", ".mov", ".mkv"} /\ entry.isfile

\* What stream.run of the transcoder does.
TranscoderOutcomes == {"ok", "ffmpeg_error", "error"}

\* convert_folder_fps up to its loop: the folder is checked, the output
\* folder made, the videos listed.  present are the names the output folder
\* holds already.
convert_folder_fps_begin(folder_ok, makedirs, entries, present) ==
    LET videos == SelectSeq(entries, is_video_file)
        returned == [NoFpsRun EXCEPT !.pc = "returned", !.ret = FALSE]
    IN  IF ~folder_ok THEN returned
        ELSE IF makedirs # "ok" THEN returned
        ELSE IF videos = <<>> THEN returned
        ELSE [NoFpsRun EXCEPT !.pc = "loop", !.listing = videos,
                              !.present = present, !.at = 1]

\* One pass of the loop that leaves fail_count as it is when the retry succeeds.
convert_folder_fps_file_uncorrected(r, first, retry) ==
    LET filename == r.listing[r.at]
        r0 == [r EXCEPT !.at = @ + 1, !.visited = Append(@, filename)]
        run1 == [file |-> filename, audio_copy |-> TRUE, outcome |-> first]
        run2 == [file |-> filename, audio_copy |-> FALSE, outcome |-> retry]
    IN  IF filename \in r.present
        THEN [r0 EXCEPT !.success_count = @ + 1]
        ELSE IF first = "ok"
        THEN [r0 EXCEPT !.runs = Append(@, run1), !.success_count = @ + 1]
        ELSE IF first = "ffmpeg_error"
        THEN LET r1 == [r0 EXCEPT !.runs = Append(Append(@, run1), run2),
                                  !.fail_count = @ + 1]
             IN  IF retry = "ok"
                 THEN [r1 EXCEPT !.success_count = @ + 1]
                 ELSE r1
        ELSE [r0 EXCEPT !.runs = Append(@, run1), !.fail_count = @ + 1]

\* One pass of the loop: the file is skipped when its output exists, else
\* transcoded, and transcoded once more without the audio copy after an
\* ffmpeg.Error.
convert_folder_fps_file(r, first, retry) ==
    LET filename == r.listing[r.at]
        r0 == [r EXCEPT !.at = @ + 1, !.visited = Append(@, filename)]
        run1 == [file |-> filename, audio_copy |-> TRUE, outcome |-> first]
        run2 == [file |-> filename, audio_copy |-> FALSE, outcome |-> retry]
    IN  IF filename \in r.present
        THEN [r0 EXCEPT !.success_count = @ + 1]
        ELSE IF first = "ok"
        THEN [r0 EXCEPT !.runs = Append(@, run1), !.success_count = @ + 1]
        ELSE IF first = "ffmpeg_error"
        THEN LET r1 == [r0 EXCEPT !.runs = Append(Append(@, run1), run2),
                                  !.fail_count = @ + 1]
             IN  IF retry = "ok"
                 THEN [r1 EXCEPT !.success_count = @ + 1,
                                 !.fail_count = @ - 1]
                 ELSE r1
        ELSE [r0 EXCEPT !.runs = Append(@, run1), !.fail_count = @ + 1]

\* The end of the loop: return fail_count == 0.
convert_folder_fps_return(r) ==
    [r EXCEPT !.pc = "returned", !.ret = (r.fail_count = 0)]

fps_vars == <<editor_vars, options, batch, gemini, session, disk, scene, mapping,
             naming, filters>>

\* The conversion dialog was accepted: convert_folder_fps starts.
ConvertStart ==
    \E folder_ok \in BOOLEAN, makedirs \in {"ok", "oserror"}, entries \in Folders :
        \E present \in SUBSET {entries[i] : i \in 1..Len(entries)} :
            /\ fps_run.pc = "idle"
            /\ fps_run' = convert_folder_fps_begin(folder_ok, makedirs, entries, present)
            /\ UNCHANGED fps_vars

\* One file of the listing.
ConvertFile ==
    \E first \in TranscoderOutcomes, retry \in TranscoderOutcomes :
        /\ fps_run.pc = "loop"
        /\ fps_run.at <= Len(fps_run.listing)
        /\ fps_run' = convert_folder_fps_file(fps_run, first, retry)
        /\ UNCHANGED fps_vars

\* The listing is exhausted.
ConvertReturn ==
    /\ fps_run.pc = "loop"
    /\ fps_run.at > Len(fps_run.listing)
    /\ fps_run' = convert_folder_fps_return(fps_run)
    /\ UNCHANGED fps_vars

\* open_convert_fps_dialog after the call: the message box was closed.
ConvertReported ==
    /\ fps_run.pc = "returned"
    /\ fps_run' = NoFpsRun
    /\ UNCHANGED fps_vars

NextConvert ==
    \/ ConvertStart
    \/ ConvertFile
    \/ ConvertReturn
    \/ ConvertReported

SpecConvert == Init /\ [][NextConvert]_vars

\* ------------------------------------------------------------- properties
\* The selected range of the current video, when there is one.
has_selection == cur # NoVideo /\ sel # NoId /\ found(State, sel)
selected == find_range_by_id(State, sel)

\* A session on a video of fc frames with one range [start, end), selected.
one_range_session(fc, start, end) ==
    [State EXCEPT
        !.video_data = [v \in Videos |->
            IF v = "a.mp4"
            THEN <<[id |-> 1, start |-> start, end |-> end, crop |-> None,
                    index |-> 1]>>
            ELSE <<>>],
        !.cur = "a.mp4", !.sel = 1, !.next_id = 2, !.cap = TRUE,
        !.frame_count = fc, !.fps10 = 300, !.pos = start + 1, !.shown = start,
        !.slider = start, !.slider_max = fc - 1, !.slider_enabled = TRUE,
        !.label = start, !.start_text = Str(start), !.dur_text = Str(end - start),
        !.is_playing = FALSE, !.loop_playback = FALSE,
        !.is_playing_range = FALSE, !.timer = FALSE, !.has_pixmap = TRUE]

\* C1: on a loaded video, whatever sequence of add (button or crop gesture),
\* duration update, nudge of start or end, crop set or clear, and remove has
\* run, every range stored for the video has 0 <= start < end <= frame_count.
RangeBoundsValid ==
    cur # NoVideo =>
        \A i \in 1..Len(ranges_of(State)) :
            LET r == ranges_of(State)[i]
            IN  0 <= r.start /\ r.start < r.end /\ r.end <= frame_count

\* Two ranges, one made by the button past frame 0 and one carrying a crop,
\* one of them ending at the last frame.
RangeBoundsWitness ==
    /\ Len(ranges_of(State)) = 2
    /\ \E i \in 1..2 : ranges_of(State)[i].start > 0
    /\ \E i \in 1..2 : ranges_of(State)[i].crop # None
    /\ \E i \in 1..2 : ranges_of(State)[i].end = frame_count

\* C2: the index of the ranges of every video is 1..N in list order, after
\* any adds and removes; removing the selected range leaves the other ranges
\* as they were, in the order they had, with index 1..N-1.
OrdinalsFollowListOrder ==
    /\ \A v \in Videos : \A i \in 1..Len(video_data[v]) : video_data[v][i].index = i
    /\ has_selection =>
         LET before == ranges_of(State)
             row == range_row(State, sel)
             after == ranges_of(remove_selected_range(State))
         IN  /\ Len(after) = Len(before) - 1
             /\ \A i \in 1..Len(after) :
                  after[i] = [before[IF i < row THEN i ELSE i + 1] EXCEPT !.index = i]

\* The second of three ranges was removed: the first and the third remain, in
\* that order, numbered 1 and 2.
OrdinalsWitness ==
    /\ Len(ranges_of(State)) = 2
    /\ ranges_of(State)[1].id = 1 /\ ranges_of(State)[1].index = 1
    /\ ranges_of(State)[2].id = 3 /\ ranges_of(State)[2].index = 2

\* C3 as stated: nudge_start_frame(delta) either leaves the selected range
\* unchanged or sets start to max(0, start + delta) and end to the new start
\* plus the old duration.
NudgeStartKeepsDuration ==
    has_selection =>
        \A delta \in Deltas :
            LET r == selected
                r2 == find_range_by_id(nudge_start_frame(State, delta), sel)
                new_start == Max(0, r.start + delta)
            IN  \/ r2 = r
                \/ r2 = [r EXCEPT !.start = new_start,
                                  !.end = new_start + (r.end - r.start)]

\* C3: nudge_start_frame(delta) sets start to max(0, start + delta) and end to
\* min(new start + old duration, frame_count), so the duration is kept unless
\* the end is cut at the end of the video; when the new start is not below
\* that end the nudge is rejected and the range unchanged.  No other range
\* changes.
NudgeStartClampsEnd ==
    has_selection =>
        \A delta \in Deltas :
            LET r == selected
                t == nudge_start_frame(State, delta)
                new_start == Max(0, r.start + delta)
                new_end == Min(new_start + (r.end - r.start), frame_count)
                r2 == IF new_start >= new_end THEN r
                      ELSE [r EXCEPT !.start = new_start, !.end = new_end]
            IN  t.video_data =
                    [video_data EXCEPT ![cur][range_row(State, sel)] = r2]

\* A nudge to the right of a range that ends at the last frame is accepted
\* and shortens it; a further one is rejected.
NudgeStartWitness ==
    /\ has_selection
    /\ \E delta \in Deltas :
         LET r2 == find_range_by_id(nudge_start_frame(State, delta), sel)
         IN  /\ r2.start = selected.start + delta
             /\ r2.end - r2.start < selected.end - selected.start
    /\ \E delta \in Deltas :
         /\ selected.start + delta >= frame_count
         /\ nudge_start_frame(State, delta) = State

\* C4 as stated: nudge_end_frame(delta) leaves start and sets end to
\* min(start + max(1, old duration + delta), frame_count), the old duration
\* being that of the stored range.
NudgeEndFromStoredDuration ==
    has_selection =>
        \A delta \in Deltas :
            LET r == selected
                r2 == find_range_by_id(nudge_end_frame(State, delta), sel)
            IN  r2 = [r EXCEPT !.end = Min(r.start + Max(1, (r.end - r.start) + delta),
                                           frame_count)]

\* Durations a caller can ask update_range_duration_from_input for.
RequestedDurations == (-1)..(MaxFrames + 1)

\* C5: update_range_duration_from_input with the duration d in the input sets
\* the end of the selected range to min(start + d, frame_count) and nothing
\* else, and leaves start < end; with d <= 0, or an end that would not pass
\* the start, the range is unchanged.  With start 100 on 150 frames, d = 1000
\* gives end 150.
UpdateDurationClampsEnd ==
    /\ has_selection =>
         /\ start_text = Str(selected.start)
         /\ \A d \in RequestedDurations :
              LET r == selected
                  t == update_range_duration_from_input(
                           [State EXCEPT !.dur_text = Str(d)])
                  new_end == Min(r.start + d, frame_count)
                  r2 == IF d <= 0 \/ new_end <= r.start THEN r
                        ELSE [r EXCEPT !.end = new_end]
              IN  /\ r2.start < r2.end
                  /\ t.video_data =
                        [video_data EXCEPT ![cur][range_row(State, sel)] = r2]
    /\ LET t == update_range_duration_from_input(
                    [one_range_session(150, 100, 110) EXCEPT !.dur_text = Str(1000)])
       IN  find_range_by_id(t, 1) =
               [id |-> 1, start |-> 100, end |-> 150, crop |-> None, index |-> 1]

\* A range that ends before the last frame, for which a duration longer than
\* the video is cut at the last frame and a duration of 0 is refused.
UpdateDurationWitness ==
    /\ has_selection
    /\ selected.end < frame_count
    /\ find_range_by_id(update_range_duration_from_input(
           [State EXCEPT !.dur_text = Str(MaxFrames + 1)]), sel).end = frame_count
    /\ find_range_by_id(update_range_duration_from_input(
           [State EXCEPT !.dur_text = Str(0)]), sel) = selected

\* C6: for 0 <= start < end <= frame_count, add_new_range(start, end) with no
\* crop, and the button when the slider is at start and the duration input
\* holds end - start, store a range that find_range_by_id returns under its new
\* id with exactly these bounds and no crop; the ranges stored before are
\* unchanged.
AddThenFind ==
    (cur # NoVideo /\ slider_enabled) =>
        \A start \in 0..frame_count : \A end \in 0..frame_count :
            start < end =>
                LET t == add_new_range(State, TRUE, start, end, None)
                    u == add_range_at_current_frame(
                             [State EXCEPT !.dur_text = Str(end - slider)])
                    kept(x) == /\ Len(ranges_of(x)) = Len(ranges_of(State)) + 1
                               /\ \A i \in 1..Len(ranges_of(State)) :
                                    ranges_of(x)[i] = ranges_of(State)[i]
                    stored(x, s0) ==
                        /\ found(x, next_id)
                        /\ find_range_by_id(x, next_id).start = s0
                        /\ find_range_by_id(x, next_id).end = end
                        /\ find_range_by_id(x, next_id).crop = None
                IN  /\ kept(t) /\ stored(t, start)
                    /\ start = slider => kept(u) /\ stored(u, start)

\* A second range, past frame 0 and without a crop, is stored after a first
\* range that keeps its crop.
AddThenFindWitness ==
    /\ Len(ranges_of(State)) = 2
    /\ ranges_of(State)[1].id = 1 /\ ranges_of(State)[1].crop # None
    /\ sel = 2 /\ found(State, 2)
    /\ find_range_by_id(State, 2).start = 1
    /\ find_range_by_id(State, 2).end = frame_count
    /\ find_range_by_id(State, 2).crop = None

\* C7: every stored crop <<x, y, w, h>> has x >= 0, y >= 0, w > 0, h > 0,
\* x + w <= width and y + h <= height of its video; a gesture whose rectangle
\* still has w <= 0 or h <= 0 after the clamp changes nothing.
StoredCropsInside ==
    /\ \A v \in Videos : \A i \in 1..Len(video_data[v]) :
         LET c == video_data[v][i].crop
         IN  c # None =>
                /\ c[1] >= 0 /\ c[2] >= 0 /\ c[3] > 0 /\ c[4] > 0
                /\ c[1] + c[3] <= VideoProps(v).width
                /\ c[2] + c[4] <= VideoProps(v).height
    /\ cur # NoVideo =>
         \A rect \in CropRects :
            LET m == crop_mapped(State, rect)
                w == Min(m.w, original_width(State) - Max(0, m.x))
                h == Min(m.h, original_height(State) - Max(0, m.y))
            IN  (w <= 0 \/ h <= 0) => crop_rect_finalized(State, rect) = State

\* A range holds the crop that CornerRect is cut to, and the gesture that
\* lies outside the frame is discarded.
StoredCropsWitness ==
    /\ has_selection
    /\ selected.crop = <<2, 1, 2, 2>>
    /\ crop_mapped(State, CornerRect).w = 6
    /\ \E rect \in CropRects :
         /\ crop_mapped(State, rect).x >= original_width(State)
         /\ crop_rect_finalized(State, rect) = State

\* The continuous modes that are on.
active_modes(s) ==
    (IF s.is_playing THEN {"PlayingForward"} ELSE {})
    \cup (IF s.loop_playback THEN {"LoopingRange"} ELSE {})
    \cup (IF s.is_playing_range THEN {"PlayingRange"} ELSE {})

\* Idle: the timer is stopped and no mode is on.
idle(s) == ~s.timer /\ active_modes(s) = {}

\* C8: at most one continuous mode is on, and the timer runs exactly when one
\* is; whichever toggle is pressed, _start_playback is never entered while the
\* timer or another mode is still on.
OneModeAtATime ==
    /\ Cardinality(active_modes(State)) <= 1
    /\ timer <=> active_modes(State) # {}
    /\ ~toggle_loop_playback(State).overlap
    /\ slider_enabled => ~toggle_play_forward(State).overlap
    /\ sel # NoId => ~toggle_play_selected_range(State).overlap

\* Each mode runs in a state where the toggle of another mode starts that
\* other mode.
OneModeWitness ==
    /\ timer /\ is_playing /\ slider_enabled
    /\ active_modes(toggle_loop_playback(State)) = {"LoopingRange"}
    /\ toggle_loop_playback(State).timer
    /\ active_modes(toggle_play_selected_range(State)) = {"PlayingRange"}
    /\ toggle_play_selected_range(State).timer

\* C9: with a video loaded, scrub_video, step_frame, jump_frames and goto_frame
\* leave the controller idle (timer stopped, no mode on), whatever mode was on,
\* and call update_frame_display exactly once; the slider moved by the user
\* does the same.
SeekStopsPlayback ==
    slider_enabled =>
        /\ \A f \in Frames :
             /\ idle(scrub_video(State, f)) /\ scrub_video(State, f).seeks = 1
             /\ idle(goto_frame(State, f)) /\ goto_frame(State, f).seeks = 1
             /\ (f <= slider_max /\ f # slider) =>
                   idle(slider_setValue(State, f)) /\ slider_setValue(State, f).seeks = 1
        /\ \A delta \in {-1, 1} :
             /\ idle(step_frame(State, delta)) /\ step_frame(State, delta).seeks = 1
             /\ idle(jump_frames(State, delta)) /\ jump_frames(State, delta).seeks = 1

\* A loop is running and the four operations stop it.
SeekStopsWitness ==
    /\ timer /\ loop_playback /\ slider_enabled
    /\ \E f \in Frames : f # slider /\ idle(scrub_video(State, f))
    /\ idle(step_frame(State, 1))
    /\ idle(jump_frames(State, -1))
    /\ \E f \in Frames : idle(goto_frame(State, f))

\* C10 as stated: while the loop runs, the frame a tick of the timer decodes
\* and displays lies in [start, end) of the range selected at that moment,
\* and is start when the decoder has reached end; so does the frame that
\* toggle_loop_playback displays when it starts the loop.
LoopShowsSelectedRange ==
    /\ (timer /\ loop_playback) =>
         LET t == playback_step(State)
         IN  t.timer =>
                /\ has_selection
                /\ selected.start <= t.shown /\ t.shown < selected.end
                /\ pos >= selected.end => t.shown = selected.start
    /\ (~timer /\ has_selection) =>
         LET t == toggle_loop_playback(State)
         IN  t.timer =>
                selected.start <= t.shown /\ t.shown < selected.end


\* C11: while range playback over [start, end) runs, the displayed frame f has
\* start <= f < end; the tick that finds the decoder position at or past end
\* leaves the controller idle, with the displayed and the reported frame both
\* start.
RangePlaybackShowsRange ==
    (timer /\ is_playing_range) =>
        /\ pb_start <= shown /\ shown < range_end
        /\ pos >= range_end =>
             LET t == playback_step(State)
             IN  idle(t) /\ t.shown = pb_start /\ t.label = pb_start

\* C12: when the cap.read() of a tick fails, in whichever mode, the tick
\* leaves the controller idle (timer stopped, no mode on), the label reports
\* the frame that was displayed last, nothing new is displayed, and a
\* _playback_step run again in that state reads nothing.
DecodeFailureStops ==
    (timer /\ step_reads(State) /\ ~read_ok(State, step_read_pos(State))) =>
        LET t == playback_step(State)
            u == playback_step(t)
        IN  /\ idle(t)
            /\ t.label = shown
            /\ t.shown = shown /\ t.seeks = 0
            /\ idle(u) /\ u.pos = t.pos /\ u.shown = t.shown


\* ------------------------------------------------- properties of the export
Images == {CroppedImage, UncroppedImage}
ExportedVideos == {CroppedVideo, UncroppedVideo}

\* The crop of the range is one export_videos refuses.
crop_refused ==
    /\ range_data(batch).crop # None
    /\ ~crop_valid(range_data(batch).crop, original_path(batch))

\* C13: an artifact that is captioned without the captioning service, or that
\* was handed to it, has a caption file next to it whenever the trigger word or
\* the manual caption is not empty.
CaptionFileNextToArtifact ==
    \A artifact \in batch.out :
        (/\ ~options.generate_gemini_flag \/ artifact \in batch.handed
         /\ options.trigger_word # <<>> \/ simple_caption # <<>>)
        => \E file \in batch.txt : file.of = artifact

\* C14: once the steps of a range whose crop is refused have run, with the
\* cropped export checked, there is no cropped video; the uncropped video is
\* there when it is checked and its transcoding did not fail; and when image
\* export is checked, the start frame decodes and no image write failed, an
\* image of the range is there.
InvalidCropSkipsOnlyCroppedVideo ==
    (batch.pc = "caption" /\ options.export_cropped_flag /\ crop_refused) =>
        /\ CroppedVideo \notin batch.out
        /\ (options.export_uncropped_flag /\ UncroppedVideo \notin batch.failed)
              => UncroppedVideo \in batch.out
        /\ (/\ options.export_image_flag
            /\ frame_read(batch)
            /\ batch.failed \cap Images = {})
              => batch.out \cap Images # {}

\* C15: with image export checked, once the image step of a valid range whose
\* start frame decodes has run without a failed write, at least one image of
\* the range is written, whatever the other options are.
ImageExportWritesImage ==
    (/\ batch.pc \in {"cropped", "uncropped", "caption"}
     /\ options.export_image_flag
     /\ frame_read(batch)
     /\ batch.failed \cap Images = {})
        => batch.out \cap Images # {}

\* The position after the loop body of the range at position b ended.
after_range(b, u) ==
    IF b.idx < Len(ranges(b))
    THEN u.pc = "range" /\ u.item = b.item /\ u.idx = b.idx + 1
    ELSE IF b.item < Len(b.items)
    THEN u.pc = "open" /\ u.item = b.item + 1
    ELSE u.pc = "finished"

\* C16: when the transcoder fails (ffmpeg.Error or another exception) for the
\* cropped or the uncropped video of a range, only that artifact is lost: the
\* loop body goes on with its next step on the same range with what it wrote
\* so far, the uncropped video is still transcoded after a failed cropped one,
\* and after the last step the loop moves to the next range, the next source or
\* the end of the batch as it does without a failure.
TranscoderFailureIsolated ==
    /\ batch.pc = "cropped" =>
         \A ffmpeg \in FfmpegOutcomes \ {"ok"} :
            LET t == export_cropped(batch, ffmpeg)
            IN  /\ t.pc = "uncropped"
                /\ t.item = batch.item /\ t.idx = batch.idx
                /\ t.out = batch.out /\ t.txt = batch.txt
                /\ options.export_uncropped_flag =>
                      UncroppedVideo \in export_uncropped(t, "ok").out
    /\ batch.pc = "uncropped" =>
         \A ffmpeg \in FfmpegOutcomes \ {"ok"} :
            LET t == export_uncropped(batch, ffmpeg)
            IN  /\ t.pc = "caption"
                /\ t.item = batch.item /\ t.idx = batch.idx
                /\ t.out = batch.out /\ t.txt = batch.txt
    /\ (batch.pc = "caption" /\ batch.failed \cap ExportedVideos # {}) =>
         \A oracle \in VideoOracles, answered \in SUBSET Images :
            after_range(batch, export_caption(batch, oracle, answered))

\* The cropped video of a range failed in the transcoder and its uncropped
\* video was written; the range is not the last one of the batch.
TranscoderFailureWitness ==
    /\ batch.pc = "caption"
    /\ CroppedVideo \in batch.failed
    /\ UncroppedVideo \in batch.out
    /\ batch.idx < Len(ranges(batch)) /\ batch.item < Len(batch.items)

\* C17: the batch ends with a report of its tally: a batch in which something
\* failed does not end with the report of a batch in which nothing did.
ExportReportsTally ==
    (batch.pc = "finished" /\ batch.any_failed) =>
        batch.message # export_finished(NoBatch).message

\* C18: with captioning checked, the caption step hands exactly one video to
\* the captioning service when a video of the range was written, the cropped
\* one if it was written and the uncropped one otherwise, and hands the images
\* written only when no video was.
OneArtifactCaptioned ==
    /\ ~options.generate_gemini_flag => batch.handed = {}
    /\ (batch.pc = "caption" /\ options.generate_gemini_flag) =>
         \A oracle \in VideoOracles, answered \in SUBSET Images :
            LET u == export_caption(batch, oracle, answered)
            IN  IF batch.out \cap ExportedVideos # {}
                THEN u.handed = {IF CroppedVideo \in batch.out
                                 THEN CroppedVideo ELSE UncroppedVideo}
                ELSE u.handed = batch.out \cap Images

\* The caption step has run on a range whose cropped video failed: the
\* uncropped video was handed over, the image written was not.
OneArtifactWitness ==
    /\ batch.pc \in {"range", "open", "finished"}
    /\ batch.handed = {UncroppedVideo}
    /\ CroppedVideo \in batch.failed
    /\ UncroppedImage \in batch.out

\* C19: the validation skips a range exactly when start < 0, start >=
\* frame count or min(end, frame count) <= start: nothing is attempted for it
\* and the loop moves on as after any range; every other range enters the loop
\* body with duration_frames = min(end, frame count) - start.
RangeValidationSkips ==
    batch.pc = "range" =>
        LET start == range_data(batch).start
            end == range_data(batch).end
            t == validate_range(batch)
        IN  IF \/ start < 0
               \/ start >= total_source_frames(batch)
               \/ Min(end, total_source_frames(batch)) <= start
            THEN /\ after_range(batch, t)
                 /\ t.out = batch.out /\ t.attempted = batch.attempted
            ELSE /\ t.pc = "image" /\ t.idx = batch.idx /\ t.item = batch.item
                 /\ duration_frames(t) =
                       Min(end, total_source_frames(batch)) - start
                 /\ duration_frames(t) > 0

\* The fourth range of b.mp4, which ends past the video, is in the loop body
\* with the three frames of the video as its duration, after the two ranges
\* before it were skipped.
RangeValidationWitness ==
    /\ batch.pc = "image"
    /\ original_path(batch) = "b.mp4" /\ batch.idx = 4
    /\ range_data(batch).end > total_source_frames(batch)
    /\ duration_frames(batch) = total_source_frames(batch)
    /\ ~range_passes([batch EXCEPT !.idx = 2])
    /\ ~range_passes([batch EXCEPT !.idx = 3])

\* C20: whatever course a call of generate_gemini_video_description takes,
\* when its upload succeeded delete_file is called exactly once before it
\* returns, and it is not called otherwise.
UploadDeletedOnce ==
    /\ \A oracle \in VideoOracles :
          LET called == generate_gemini_video_description(oracle)
          IN  called.deletes = called.uploads
    /\ batch.deletes = batch.uploads

\* A video was handed over and uploaded, the call returned no description
\* (only the trigger word could have been written), and the upload was deleted.
UploadDeletedWitness ==
    /\ batch.handed \cap ExportedVideos # {}
    /\ batch.uploads = 1 /\ batch.deletes = 1
    /\ batch.txt = {}
    /\ \E oracle \in VideoOracles :
          /\ oracle.configured /\ oracle.upload = "ok" /\ oracle.state = "FAILED"
          /\ generate_gemini_video_description(oracle).deletes = 1

\* C21: video captioning always terminates: a call of
\* generate_gemini_video_description that polls the processing state of its
\* upload stops polling and returns, also when the upload stays PROCESSING.
VideoCaptioningTerminates ==
    (gemini.fn = "video" /\ gemini.pc = "poll") ~> (gemini.pc = "returned")

\* C22: generate_gemini_caption calls the model at most max_retries times for
\* an image, sleeps 1, 2, ... (doubling) after the failed attempts, returns
\* the text of the first call that answers with text, returns None when the
\* last attempt has failed, and returns None without a call when the key is
\* missing; every path ends in a return.
ImageCaptionBounded ==
    /\ gemini.fn = "image" =>
         /\ gemini.calls <= max_retries
         /\ \A i \in 1..Len(gemini.slept) : gemini.slept[i] = 2 ^ (i - 1)
         /\ gemini.pc = "caption" =>
              /\ gemini.calls = gemini.attempt
              /\ Len(gemini.slept) = gemini.calls
              /\ gemini.ret = None
              /\ \A outcome \in GenerateOutcomes \ {"deadline"} :
                    LET t == gemini_caption_attempt(gemini, outcome)
                    IN  /\ t.pc \in {"caption", "returned"}
                        /\ outcome = "text" =>
                             t.pc = "returned" /\ t.ret = <<Description>>
                        /\ outcome # "text" => t.ret = None
                        /\ (outcome = "error" /\ gemini.calls + 1 < max_retries)
                             => t.pc = "caption"
                        /\ (outcome = "error" /\ gemini.calls + 1 = max_retries)
                             => t.pc = "returned"
    /\ (no_call /\ ~gemini.gemini_model /\ ~gemini.api_key) =>
         \A configure \in {"ok", "raises"}, opened \in {"ok", "missing", "error"} :
            LET t == gemini_caption_enter(gemini, configure, opened)
            IN  t.pc = "returned" /\ t.ret = None /\ t.calls = 0

\* All three attempts for an image failed: two sleeps, None returned.
ImageCaptionWitness ==
    /\ gemini.fn = "image" /\ gemini.pc = "returned"
    /\ gemini.calls = max_retries /\ gemini.slept = <<1, 2>>
    /\ gemini.ret = None

\* C23: load_session on a session file that cannot be opened or does not
\* decode returns normally with folder_path, video_files, folder_sessions and
\* video_data all empty, whatever they were; on a file that decodes, all four
\* are what the file holds (a missing key gives the empty value): never some
\* fields of the file and some reset.
SessionLoadResets ==
    \A file \in SessionFiles \cup {disk} :
        LET c == load_session(memory, file)
        IN  /\ file.kind \in {"unreadable", "corrupt", "not_object"} =>
                 /\ c.session.folder_path = ""
                 /\ c.session.video_files = <<>>
                 /\ c.session.folder_sessions = None
                 /\ c.video_data = NoRanges
            /\ file.kind = "object" =>
                 /\ c.session.folder_path = get(file.data.folder_path, "")
                 /\ c.session.video_files = get(file.data.video_files, <<>>)
                 /\ c.session.folder_sessions = get(file.data.folder_sessions, None)
                 /\ c.video_data = get(file.data.video_data, NoRanges)

\* The program was started on a file that a save left half written, with a
\* folder and a range in it, and runs with an empty session.
SessionLoadWitness ==
    /\ session.running
    /\ disk.kind = "corrupt"
    /\ disk.data.folder_path = <<Folder>>
    /\ disk.data.video_data # <<NoRanges>>
    /\ session.folder_path = "" /\ session.video_files = <<>>
    /\ session.folder_sessions = None /\ video_data = NoRanges
    /\ session.video_list = <<>>

\* C24: the session is written after every mutating UI action: a handler that
\* changes the ranges of the loaded video (add, remove, duration update,
\* nudge, crop set or clear) leaves a session file holding the video_data it
\* leaves in memory.
SessionWrittenAfterMutation ==
    [][(session.running /\ session'.running /\ cur # NoVideo /\ cur' = cur
            /\ video_data' # video_data)
          => (disk'.kind = "object" /\ disk'.data.video_data = <<video_data'>>)]_vars

\* C25: while a new crop rectangle is drawn with a ratio n/d set, after every
\* mouse move, wherever the pointer is, the rectangle shown has
\* width / height = n/d (exactly, on the positions of the model; rectangles
\* without width or height are left aside).
AspectKeptWhileDrawing ==
    (drawing /\ scene.aspect_ratio # None) =>
        \A scene_pos \in Pointers :
            LET rect == mouseMoveEvent(scene, scene_pos, scene_w, scene_h).temp_rect[1]
            IN  (rect.w > 0 /\ rect.h > 0) =>
                    rect.w * scene.aspect_ratio[2] = rect.h * scene.aspect_ratio[1]

\* C26: fixed_export_width and fixed_export_height are both set or both
\* unset; the ratio selector is enabled exactly when they are unset; while
\* they are set the scene's ratio is width / height and no selector event
\* changes it; an apply with an empty, non-numeric or non-positive width or
\* height changes nothing but the status text.
OneConstraintMode ==
    /\ (scene.fixed_export_width = None) <=> (scene.fixed_export_height = None)
    /\ scene.combo_enabled <=> (scene.fixed_export_width = None)
    /\ scene.fixed_export_width # None =>
         /\ scene.aspect_ratio # None
         /\ scene.aspect_ratio[1] * scene.fixed_export_height[1]
              = scene.aspect_ratio[2] * scene.fixed_export_width[1]
         /\ \A ratio_name \in RatioNames :
              /\ set_aspect_ratio(scene, ratio_name).aspect_ratio = scene.aspect_ratio
              /\ combo_setCurrentText(scene, ratio_name, FALSE).aspect_ratio
                   = scene.aspect_ratio
    /\ \A width_str \in FixedTexts, height_str \in FixedTexts :
         (\/ width_str \in {"", "x", "0"}
          \/ height_str \in {"", "x", "0"}) =>
            [toggle_fixed_resolution_mode(scene, TRUE, width_str, height_str)
                EXCEPT !.status = scene.status] = scene

\* Fixed resolution 48 x 64 is active, the selector is disabled, and a crop
\* was drawn under it.
OneConstraintWitness ==
    /\ scene.fixed_export_width = <<48>> /\ scene.fixed_export_height = <<64>>
    /\ scene.aspect_ratio = <<48, 64>>
    /\ ~scene.combo_enabled
    /\ scene.crop_item # None

\* C27: a rectangle in scene coordinates is mapped to source pixels by scaling
\* x and width by source width / pixmap width and y and height by source
\* height / pixmap height, each on its own, and truncating; the rectangle
\* (100, 50, 200, 150) on a 960 x 540 pixmap of a 1920 x 1080 video is mapped
\* to (200, 100, 400, 300).
SceneToSourceScales ==
    /\ \A rounding \in Roundings :
          crop_from_scene(drawn_rect(100, 50, 200, 150), <<1920, 1080>>,
                          <<960, 540>>, rounding) = ExampleCrop
    /\ mapping.source # <<0, 0>> =>
         \A rect \in RectsInside(mapping.display), rounding \in Roundings :
            LET c == crop_from_scene(drawn_rect(rect.x, rect.y, rect.w, rect.h),
                                     mapping.source, mapping.display, rounding)
                ow == mapping.source[1]
                oh == mapping.source[2]
                pw == mapping.display[1]
                ph == mapping.display[2]
            IN  /\ c.x * pw <= rect.x * ow /\ rect.x * ow <= (c.x + 1) * pw
                /\ c.w * pw <= rect.w * ow /\ rect.w * ow <= (c.w + 1) * pw
                /\ c.y * ph <= rect.y * oh /\ rect.y * oh <= (c.y + 1) * ph
                /\ c.h * ph <= rect.h * oh /\ rect.h * oh <= (c.h + 1) * ph
                /\ rounding = "exact" =>
                     /\ rect.x * ow < (c.x + 1) * pw /\ rect.w * ow < (c.w + 1) * pw
                     /\ rect.y * oh < (c.y + 1) * ph /\ rect.h * oh < (c.h + 1) * ph

\* The rectangle of the example was drawn and mapped.
SceneToSourceWitness ==
    /\ mapping.source = <<1920, 1080>> /\ mapping.display = <<960, 540>>
    /\ mapping.drawn = <<ExampleRect>>
    /\ mapping.crop = <<ExampleCrop>>

\* C28: a crop of whole pixels inside the video, put on the scene by
\* _load_range_crop and mapped back by crop_rect_finalized, comes back within
\* one pixel in each of x, y, width and height, whatever the pixmap size.
RoundTripWithinOnePixel ==
    (mapping.crop # None /\ inside(mapping.crop[1], mapping.source)) =>
        \A rounding \in Roundings :
            LET r == mapping.crop[1]
                b == crop_from_scene(
                         scene_from_crop(r, mapping.source, mapping.display),
                         mapping.source, mapping.display, rounding)
            IN  /\ r.x - 1 <= b.x /\ b.x <= r.x + 1
                /\ r.y - 1 <= b.y /\ b.y <= r.y + 1
                /\ r.w - 1 <= b.w /\ b.w <= r.w + 1
                /\ r.h - 1 <= b.h /\ b.h <= r.h + 1

\* A crop went to the scene and came back one pixel short in x.
RoundTripWitness ==
    /\ mapping.crop # None /\ mapping.shown # None /\ mapping.back # None
    /\ inside(mapping.crop[1], mapping.source)
    /\ mapping.back[1].x = mapping.crop[1].x - 1

\* C29: a one-shot update_frame_display(n) that succeeds decodes and displays
\* frame m = n clamped to [0, frame_count - 1], reports m on the slider and
\* the label, and leaves the decoder at m + 1, whatever the decoder position
\* was before.
OneShotSeekShowsTarget ==
    cap =>
        \A n \in -1..(frame_count + 1) :
            update_frame_display_ret(State, n) =>
                LET t == update_frame_display(State, n)
                    m == clamp_frame(State, n)
                IN  /\ t.shown = m
                    /\ t.label = m /\ t.slider = m
                    /\ t.pos = m + 1

\* C30: a tick of the playback timer whose read succeeds, in forward, loop or
\* range playback, reports on the slider and the label the index of the frame
\* it decoded and displayed, and that index lies in [0, frame_count - 1].
TickReportsShownFrame ==
    (timer /\ step_reads(State) /\ read_ok(State, step_read_pos(State))) =>
        LET t == playback_step(State)
        IN  /\ t.shown = step_read_pos(State) /\ t.pos = t.shown + 1
            /\ t.label = t.shown /\ t.slider = t.shown
            /\ 0 <= t.label /\ t.label <= frame_count - 1

\* A loop is about to wrap: the tick seeks back to a start past frame 0,
\* reads there and reports that frame.
TickReportsWitness ==
    /\ timer /\ loop_playback /\ pos >= pb_end /\ pb_start > 0
    /\ step_reads(State) /\ read_ok(State, step_read_pos(State))
    /\ playback_step(State).shown = pb_start
    /\ playback_step(State).label = pb_start

\* C31: with the timer firing and every read succeeding, forward playback
\* started at any position becomes idle, and the tick that stops it finds
\* the decoder at frame_count; range playback becomes idle; a tick of loop
\* playback leaves the loop running.
PlaybackRunsEnd ==
    /\ (timer /\ is_playing) ~> idle(State)
    /\ (timer /\ is_playing_range) ~> idle(State)
    /\ [][(timer /\ is_playing /\ ~timer') => pos >= frame_count]_vars
    /\ [][(timer /\ loop_playback /\ Tick) => (timer' /\ loop_playback')]_vars

\* Forward playback was started on a frame before the last one and is about
\* to be stopped by a tick at the end of the video.
PlaybackRunsWitness ==
    /\ timer /\ is_playing /\ pb_start = 0 /\ frame_count > 1
    /\ pos = frame_count
    /\ idle(playback_step(State))

\* C32: in every state of the running program save_session returns without
\* raising and, when the file can be written, leaves a file from which
\* load_session in a fresh process restores the folder_path, video_files,
\* folder_sessions and video_data that were in memory.
SaveThenLoadRestores ==
    session.running =>
        LET saved == save_session(memory, disk, "ok")
            c == load_session([session |-> NoSession, video_data |-> NoRanges],
                              saved.disk)
        IN  /\ ~saved.raised
            /\ c.session.folder_path = saved.session.folder_path
            /\ c.session.video_files = saved.session.video_files
            /\ c.session.folder_sessions = saved.session.folder_sessions
            /\ c.video_data = video_data

\* C33: when toggle_fixed_resolution_mode(False) is done, the fixed width and
\* height are unset, the ratio selector is enabled, the ratio of the scene is
\* the one of the selector's current entry (none for Free-form), and the
\* status reads Deactivated.
ClearRestoresSelectorRatio ==
    LET sc == toggle_fixed_resolution_mode(scene, FALSE, "", "")
    IN  /\ sc.fixed_export_width = None /\ sc.fixed_export_height = None
        /\ sc.combo_enabled
        /\ sc.aspect_ratio = aspect_ratios(sc.combo_text)
        /\ sc.status = "Deactivated"

\* C34: in one export batch the basename of an exported (video entry, range)
\* pair is prefix, counter, range index when a prefix is set, the counter
\* going 1, 2, ... over the exported ranges, and the display name without its
\* extension and the range index otherwise; no path is written for two
\* different pairs.
ExportNamesDisambiguate ==
    /\ \A a \in naming.named :
          /\ a.base.index = a.pair[2]
          /\ IF strip(naming.prefix) # ""
             THEN /\ a.base.prefix = strip(naming.prefix)
                  /\ a.base.counter \in 1..naming.file_counter
             ELSE a.base.stem = naming.items[a.pair[1]].display_name.stem
    /\ strip(naming.prefix) # "" =>
          /\ naming.file_counter = Cardinality(naming.named)
          /\ \A a, b \in naming.named : a.base.counter = b.base.counter => a = b
    /\ \A a, b \in naming.written : a.path = b.path => a.pair = b.pair

\* C35: the filters of a cropped video export are fps, then crop(w, h, x, y)
\* of the stored rectangle, then, exactly when a fixed resolution or a numeric
\* ratio is active, scale followed at once by setsar=1; the uncropped export
\* has the same steps without the crop; the scale width and height are even
\* integers of at least 2.
FilterStepsInOrder ==
    filters.cropped # None =>
        LET c == filters.cropped[1]
            u == filters.uncropped[1]
            names(f) == [i \in 1..Len(f) |-> f[i].name]
            scaling == filters.fixed # None
                       \/ aspect_ratios(filters.ratio_text) # None
        IN  /\ names(c) = IF scaling THEN <<"fps", "crop", "scale", "setsar">>
                          ELSE <<"fps", "crop">>
            /\ c[2].args = <<filters.crop[1].w, filters.crop[1].h,
                             filters.crop[1].x, filters.crop[1].y>>
            /\ u = <<c[1]>> \o SubSeq(c, 3, Len(c))
            /\ scaling =>
                 /\ c[4].args = <<1>>
                 /\ \A i \in 1..2 : c[3].args[i] >= 2 /\ c[3].args[i] % 2 = 0

\* A 6 x 5 source was exported under the 9:16 ratio: the width 45/16 is
\* rounded to 3 and made even, the scale is 2 x 4.
FilterStepsWitness ==
    /\ filters.cropped # None
    /\ filters.ratio_text = "9:16 (Vertical Video)"
    /\ filters.source = <<6, 5>>
    /\ filters.cropped[1][3] = [name |-> "scale", args |-> <<2, 4>>]
    /\ Len(filters.uncropped[1]) = 3

\* The ids of the ranges of a store.
range_ids(vd) == UNION {{vd[v][i].id : i \in 1..Len(vd[v])} : v \in Videos}

\* A step puts a range into the store that was not in it.
RangeAppears == range_ids(video_data') \ range_ids(video_data) # {}

\* The step is the add-range button, or a crop finalized with no range
\* selected.
ExplicitAdd ==
    \/ video_data' = add_range_at_current_frame(State).video_data
    \/ /\ sel = NoId
       /\ \E rect \in CropRects :
             video_data' = crop_rect_finalized(State, rect).video_data

\* C36 as stated: a range appears in the store only by the add-range button
\* or by a crop finalized while no range is selected; loading a video,
\* selecting, scrubbing and editing add none.
RangesOnlyByExplicitAdd == [][RangeAppears => ExplicitAdd]_vars

\* C36: a range appears in the store only by the add-range button, by a crop
\* finalized while no range is selected, or by loading a video that has no
\* range yet, which gives it one default range; loading a video that has
\* ranges and every other operation add none.
RangesByAddOrFirstLoad ==
    [][RangeAppears =>
          \/ ExplicitAdd
          \/ \E v \in Videos :
                /\ video_data[v] = <<>>
                /\ video_data' = load_video(State, v).video_data
                /\ Len(video_data'[v]) = 1]_vars

\* The first load of a video gave it its default range, and it was loaded
\* again without a second one appearing.
FirstLoadWitness ==
    /\ cur = "a.mp4" /\ next_id = 2
    /\ range_ids(video_data) = {1}
    /\ load_video(State, "a.mp4").video_data = video_data

\* C39: loading another video while the playback timer runs ends the
\* playback: when load_video returns the timer is stopped and the three mode
\* flags are false.
LoadEndsPlayback ==
    \A v \in Videos \ {cur} :
        timer => LET loaded == load_video(State, v)
                 IN  /\ ~loaded.timer
                     /\ ~loaded.is_playing
                     /\ ~loaded.loop_playback
                     /\ ~loaded.is_playing_range

\* C37: when the decoder reports no frames for a file, load_video returns
\* without an exception, with no current video, no decoder handle, the slider
\* disabled, the range list empty and the store of ranges as it was.
LoadFailureSurfaced ==
    LET loaded == load_video(State, Unreadable)
    IN  /\ ~load_video_raised(State, Unreadable)
        /\ loaded.cur = NoVideo
        /\ ~loaded.cap
        /\ ~loaded.slider_enabled
        /\ ranges_of(loaded) = <<>>
        /\ loaded.video_data = video_data

\* The ids of the ranges the range list of a state shows.
listed_ids(s) == {ranges_of(s)[i].id : i \in 1..Len(ranges_of(s))}

runs_of(r, filename) == SelectSeq(r.runs, LAMBDA run : run.file = filename)

\* C40: convert_folder_fps visits the video files of the folder in turn, each
\* once; a file is transcoded at most twice, the second time without the audio
\* copy and only after an ffmpeg.Error of the first; after each file
\* success_count + fail_count is the number of files visited and neither is
\* negative; it returns True only with fail_count = 0 and every file visited.
ConvertCountsEveryFile ==
    LET r == fps_run
        n == Len(r.listing)
    IN  /\ r.pc = "loop" \/ (r.pc = "returned" /\ n > 0) =>
            /\ r.visited = SubSeq(r.listing, 1, r.at - 1)
            /\ \A i, j \in 1..n : r.listing[i] = r.listing[j] => i = j
            /\ r.success_count >= 0 /\ r.fail_count >= 0
            /\ r.success_count + r.fail_count = Len(r.visited)
            /\ \A i \in 1..n :
                  LET runs == runs_of(r, r.listing[i])
                  IN  /\ Len(runs) <= 2
                      /\ Len(runs) >= 1 => runs[1].audio_copy
                      /\ Len(runs) = 2 => /\ runs[1].outcome = "ffmpeg_error"
                                          /\ ~runs[2].audio_copy
                      /\ r.listing[i] \in r.present => runs = <<>>
        /\ r.pc = "returned" /\ n > 0 =>
            /\ r.visited = r.listing
            /\ r.success_count + r.fail_count = n
            /\ r.ret <=> r.fail_count = 0
        /\ r.pc = "returned" /\ r.ret => r.success_count = n /\ n > 0

\* A conversion of two files returned True after one of them was transcoded
\* again without the audio copy and the other was skipped.
ConvertRetriedWitness ==
    /\ fps_run.pc = "returned" /\ fps_run.ret
    /\ Len(fps_run.listing) = 2
    /\ fps_run.present # {}
    /\ \E i \in 1..Len(fps_run.runs) :
          ~fps_run.runs[i].audio_copy /\ fps_run.runs[i].outcome = "ok"

====
